---- MODULE Spec2Model ----
(***************************************************************************)
(* Access control and submission lifecycle of the notes-sharing client.    *)
(*                                                                         *)
(* The row store is the Postgres schema of supabase/migrations with its    *)
(* row level security policies; the object store is the 'attachments'      *)
(* bucket; the client is the AssignmentDetail page (one instance per       *)
(* browser tab), the Notes and Assignments list pages, and AuthProvider    *)
(* with Layout.  A request is one atomic step at the store.  A handler     *)
(* that awaits a request is three kinds of step: the call up to the await  *)
(* (...Start), the store's answer (...Request) and the handler's code      *)
(* after the await, which carries the handler's name.  Between them the    *)
(* other events of the page, the other tabs and the other actors go on.    *)
(***************************************************************************)
EXTENDS Integers, Sequences, FiniteSets, TLC

\* ------------------------------------------------------------- bounds
\* Instants are 0..MaxClock.
MaxClock == 1
\* Row ids gen_random_uuid() hands out over a run: 1..MaxIds.
MaxIds == 2
\* Times the runs of the assignment page and of the list create a submission
\* anew after one was deleted.
MaxRedrafts == 0

\* ------------------------------------------------------------- universe
Users == {"u1", "u2"}
\* auth.uid() of a request that carries no session: SQL NULL.
Anon == "anon"
Assignments == {1}
\* The categories the migration inserts: of type 'note' and of type
\* 'announcement'.
Categories == {1, 2}
CategoryType(c) == IF c = 1 THEN "note" ELSE "announcement"
Contents == {"x", "y"}
\* Two browser tabs of the same account on the same assignment page.
Sessions == {"tabA", "tabB"}
SessUser(s) == "u1"
SessAssignment(s) == 1
\* assignments.due_date of the one assignment: the last instant but one.
DueDate(a) == MaxClock - 1

OwnedTables == {"notes", "announcements", "comments", "feedback", "submissions"}
NoFile == <<>>
NoParent == 0
\* null in place of a user.
NoUser == ""

\* What the user types into the form of a page.
FormContent == "x"

\* null in place of a file name.  A file name is the sequence of its parts
\* between the dots: <<"a", "pdf">> is a.pdf.
NoName == <<>>

\* A row of one of the owned tables.  parent is assignment_id (submissions),
\* announcement_id (comments) or category_id (notes, announcements); NoParent
\* is null.  status is the status column of submissions and feedback and ""
\* elsewhere.  file_url and file_name are the columns of these names
\* (file_type and file_size, which no condition reads, aside); a row is
\* inserted without a file unless the request names one.
Row(t, i, u, p, c, f, st) ==
    [table |-> t, id |-> i, user_id |-> u, parent |-> p, content |-> c,
     file_url |-> f, file_name |-> NoName, status |-> st]
\* null: no row.
NoRow == Row("", 0, Anon, NoParent, "", NoFile, "")

\* The value of uploadedFile: { url, name, type, size } without type and size.
Descriptor(url, name) == [url |-> url, name |-> name]
\* uploadedFile = null.
NoDescriptor == Descriptor(NoFile, NoName)

VARIABLES
    db,            \* the rows of the owned tables
    nextId,        \* the next id gen_random_uuid() hands out
    profiles,      \* ids of the rows of table profiles
    accounts,      \* ids of the rows of auth.users
    assignmentRows,\* ids of the rows of table assignments
    categories,    \* ids of the rows of table categories
    objects,       \* paths of the objects in bucket 'attachments'
    bodies,        \* the content of each object: <<path, size in bytes>>
    clock,         \* Date.now()
    loading,       \* AssignmentDetail: loading, per tab
    submission,    \* AssignmentDetail: submission, per tab
    isEditing,     \* AssignmentDetail: isEditing, per tab
    uploadedFile,  \* AssignmentDetail: uploadedFile, per tab
    isOverdue,     \* AssignmentDetail: isOverdue as computed by the last render
    error,         \* AssignmentDetail: error (whether set), per tab
    notesPage,     \* Notes: notes (their ids), categories, loading, error; per account
    auth,          \* AuthProvider: loading, user; the browser's session and route
    assignmentsPage, \* Assignments: assignments (with their submission), loading, error
    calls,         \* the handlers that await an answer, with what they captured
    last           \* the last step and what its caller observed

vars == <<db, nextId, profiles, accounts, assignmentRows, categories, objects, bodies,
          clock, loading, submission, isEditing, uploadedFile, isOverdue, error,
          notesPage, auth, assignmentsPage, calls, last>>

\* ------------------------------------------------------------- policies
\* auth.uid() = x: NULL = x is not true.
AuthUidIs(uid, x) == uid # Anon /\ uid = x

\* profiles: SELECT USING (auth.uid() = id); no INSERT and no DELETE policy.
ProfilesSelectPolicy(uid, id) == AuthUidIs(uid, id)
ProfilesInsertPolicy(uid, id) == FALSE

NotesSelectPolicy(uid, row) == AuthUidIs(uid, row.user_id)
NotesInsertPolicy(uid, row) == AuthUidIs(uid, row.user_id)
NotesUpdatePolicy(uid, row) == AuthUidIs(uid, row.user_id)
NotesDeletePolicy(uid, row) == AuthUidIs(uid, row.user_id)

SubmissionsSelectPolicyAll(uid, row) == uid # Anon
SubmissionsSelectPolicy(uid, row) == AuthUidIs(uid, row.user_id)
SubmissionsInsertPolicy(uid, row) == AuthUidIs(uid, row.user_id)
SubmissionsUpdatePolicy(uid, row) == AuthUidIs(uid, row.user_id)
SubmissionsDeletePolicyNoStatus(uid, row) == AuthUidIs(uid, row.user_id)
SubmissionsDeletePolicy(uid, row) ==
    AuthUidIs(uid, row.user_id) /\ row.status = "draft"

\* TO authenticated USING (true)
AnnouncementsSelectPolicy(uid, row) == uid # Anon
AnnouncementsInsertPolicy(uid, row) == AuthUidIs(uid, row.user_id)
AnnouncementsUpdatePolicy(uid, row) == AuthUidIs(uid, row.user_id)
AnnouncementsDeletePolicyNoOwner(uid, row) == uid # Anon
AnnouncementsDeletePolicy(uid, row) == AuthUidIs(uid, row.user_id)

CommentsSelectPolicy(uid, row) == uid # Anon
CommentsInsertPolicy(uid, row) == AuthUidIs(uid, row.user_id)
CommentsUpdatePolicy(uid, row) == AuthUidIs(uid, row.user_id)
CommentsDeletePolicy(uid, row) == AuthUidIs(uid, row.user_id)

FeedbackSelectPolicy(uid, row) == AuthUidIs(uid, row.user_id)
FeedbackInsertPolicy(uid, row) == AuthUidIs(uid, row.user_id)
FeedbackUpdatePolicyNoStatus(uid, row) == AuthUidIs(uid, row.user_id)
FeedbackUpdatePolicy(uid, row) ==
    AuthUidIs(uid, row.user_id) /\ row.status = "pending"
FeedbackDeletePolicy(uid, row) ==
    AuthUidIs(uid, row.user_id) /\ row.status = "pending"

\* The policy expression of command cmd on the row's table.  An UPDATE policy
\* with no WITH CHECK uses its USING expression for the new row as well.
Policy(cmd, uid, row) ==
    LET t == row.table
    IN  CASE t = "notes" /\ cmd = "select" -> NotesSelectPolicy(uid, row)
          [] t = "notes" /\ cmd = "insert" -> NotesInsertPolicy(uid, row)
          [] t = "notes" /\ cmd = "update" -> NotesUpdatePolicy(uid, row)
          [] t = "notes" /\ cmd = "delete" -> NotesDeletePolicy(uid, row)
          [] t = "submissions" /\ cmd = "select" -> SubmissionsSelectPolicy(uid, row)
          [] t = "submissions" /\ cmd = "insert" -> SubmissionsInsertPolicy(uid, row)
          [] t = "submissions" /\ cmd = "update" -> SubmissionsUpdatePolicy(uid, row)
          [] t = "submissions" /\ cmd = "delete" -> SubmissionsDeletePolicy(uid, row)
          [] t = "announcements" /\ cmd = "select" -> AnnouncementsSelectPolicy(uid, row)
          [] t = "announcements" /\ cmd = "insert" -> AnnouncementsInsertPolicy(uid, row)
          [] t = "announcements" /\ cmd = "update" -> AnnouncementsUpdatePolicy(uid, row)
          [] t = "announcements" /\ cmd = "delete" -> AnnouncementsDeletePolicy(uid, row)
          [] t = "comments" /\ cmd = "select" -> CommentsSelectPolicy(uid, row)
          [] t = "comments" /\ cmd = "insert" -> CommentsInsertPolicy(uid, row)
          [] t = "comments" /\ cmd = "update" -> CommentsUpdatePolicy(uid, row)
          [] t = "comments" /\ cmd = "delete" -> CommentsDeletePolicy(uid, row)
          [] t = "feedback" /\ cmd = "select" -> FeedbackSelectPolicy(uid, row)
          [] t = "feedback" /\ cmd = "insert" -> FeedbackInsertPolicy(uid, row)
          [] t = "feedback" /\ cmd = "update" -> FeedbackUpdatePolicy(uid, row)
          [] t = "feedback" /\ cmd = "delete" -> FeedbackDeletePolicy(uid, row)
          \* row level security is enabled: no policy, no access
          [] OTHER -> FALSE

\* ------------------------------------------------------------- row store
\* UNIQUE(assignment_id, user_id) of table submissions.
NoUniqueCheck(rows, new) == FALSE
UniqueViolation(rows, new) ==
    /\ new.table = "submissions"
    /\ \E r \in rows : /\ r.table = "submissions"
                       /\ r.parent = new.parent
                       /\ r.user_id = new.user_id

\* NOT NULL of submissions.assignment_id and comments.announcement_id (the
\* other NOT NULL columns are never written as null here).
NotNullViolation(new) ==
    new.table \in {"submissions", "comments"} /\ new.parent = NoParent

\* REFERENCES profiles(id), assignments(id), announcements(id), categories(id):
\* a null reference violates none of them.
ForeignKeyViolation(rows, profs, new) ==
    \/ new.user_id \notin profs
    \/ /\ new.table = "submissions"
       /\ new.parent # NoParent
       /\ new.parent \notin assignmentRows
    \/ /\ new.table = "comments"
       /\ new.parent # NoParent
       /\ ~ \E r \in rows : r.table = "announcements" /\ r.id = new.parent
    \/ /\ new.table \in {"notes", "announcements"}
       /\ new.parent # NoParent
       /\ new.parent \notin categories

\* Table feedback has no column that names a parent: a request that names one
\* is answered PGRST204 before any row is looked at.
NoSuchColumn(t, columns) == t = "feedback" /\ "parent" \in columns

\* DEFAULT 'draft' / DEFAULT 'pending' of the status columns.
DefaultStatus(t) ==
    CASE t = "submissions" -> "draft"
      [] t = "feedback" -> "pending"
      [] OTHER -> ""

\* INSERT ... RETURNING of one row by a request whose auth.uid() is uid.
\* error is the SQLSTATE, "" for none: the columns the request names (a null
\* parent is a column left out) come first, then the policy's WITH CHECK, then
\* the column constraints, then the unique index, then the references.
StoreInsert(rows, profs, uid, new) ==
    IF NoSuchColumn(new.table, IF new.parent = NoParent THEN {} ELSE {"parent"})
    THEN [error |-> "PGRST204", db |-> rows, row |-> NoRow]
    ELSE IF ~ Policy("insert", uid, new)
    THEN [error |-> "42501", db |-> rows, row |-> NoRow]
    ELSE IF NotNullViolation(new)
    THEN [error |-> "23502", db |-> rows, row |-> NoRow]
    ELSE IF UniqueViolation(rows, new)
    THEN [error |-> "23505", db |-> rows, row |-> NoRow]
    ELSE IF ForeignKeyViolation(rows, profs, new)
    THEN [error |-> "23503", db |-> rows, row |-> NoRow]
    ELSE [error |-> "", db |-> rows \cup {new}, row |-> new]

\* The row with the columns of patch replaced.
Patched(row, patch) ==
    [f \in DOMAIN row |-> IF f \in DOMAIN patch THEN patch[f] ELSE row[f]]

\* The rows of table t among ids that the request may see and change.
Targets(rows, cmd, uid, t, ids) ==
    {r \in rows : /\ r.table = t
                  /\ r.id \in ids
                  /\ Policy("select", uid, r)
                  /\ Policy(cmd, uid, r)}

\* The check of the row an UPDATE writes: the policies of these tables have no
\* WITH CHECK, so the USING expression is applied to the new row.
UpdateCheckNone(uid, new) == TRUE
UpdateCheck(uid, new) == Policy("update", uid, new)

\* UPDATE t SET patch WHERE id IN ids.  A column the table does not have is
\* an error.  Rows the policies hide are skipped without an error; a new row the policy rejects, one with a null in a NOT
\* NULL column, one that repeats the (assignment_id, user_id) of another row or
\* one that names a parent that does not exist is an error.
StoreUpdate(rows, uid, t, ids, patch) ==
    LET hit == Targets(rows, "update", uid, t, ids)
        new == {Patched(r, patch) : r \in hit}
    IN  IF NoSuchColumn(t, DOMAIN patch)
        THEN [error |-> "PGRST204", db |-> rows, count |-> 0]
        ELSE IF \E n \in new : ~ UpdateCheck(uid, n)
        THEN [error |-> "42501", db |-> rows, count |-> 0]
        ELSE IF \E n \in new : NotNullViolation(n)
        THEN [error |-> "23502", db |-> rows, count |-> 0]
        ELSE IF \E r \in hit : UniqueViolation(rows \ {r}, Patched(r, patch))
        THEN [error |-> "23505", db |-> rows, count |-> 0]
        ELSE IF \E n \in new : ForeignKeyViolation(rows, profiles, n)
        THEN [error |-> "23503", db |-> rows, count |-> 0]
        ELSE [error |-> "", db |-> (rows \ hit) \cup new,
              count |-> Cardinality(hit)]

\* ON DELETE CASCADE: the comments of the announcements among gone.
NoCascade(rows, gone) == {}
Cascaded(rows, gone) ==
    {c \in rows : /\ c.table = "comments"
                  /\ \E a \in gone : a.table = "announcements" /\ a.id = c.parent}

\* DELETE FROM t WHERE id IN ids.  Rows the policies hide are skipped without
\* an error.
StoreDelete(rows, uid, t, ids) ==
    LET hit == Targets(rows, "delete", uid, t, ids)
    IN  [error |-> "", db |-> (rows \ hit) \ Cascaded(rows, hit),
         count |-> Cardinality(hit)]

\* SELECT * FROM t WHERE id IN ids.
StoreSelect(rows, uid, t, ids) ==
    {r \in rows : r.table = t /\ r.id \in ids /\ Policy("select", uid, r)}

RowIds(rows, t) == {r.id : r \in {x \in rows : x.table = t}}

\* ------------------------------------------------------------- requests
\* What the last step asked of the store and what its caller observed: the
\* SQLSTATE the store answered (error), the rows the request changed or
\* returned (count) and what the handler reported to the user (outcome):
\* "success" for toast.success or a silent completion, "error" for toast.error
\* or setError, "" for none.  stage is the part of an awaiting handler the step
\* is: "start" (the call up to its await or its return), "request" (the store
\* answers) or "answer" (the code after the await); "" for a step of one part.
Last(op, actor, sess, t, id, err, cnt, outcome) ==
    [op |-> op, stage |-> "", actor |-> actor, sess |-> sess, table |-> t,
     id |-> id, path |-> NoFile, size |-> 0, error |-> err, count |-> cnt,
     outcome |-> outcome]
\* The same for a request to the object store, which names a path.
LastObject(op, actor, path, err, cnt) ==
    [op |-> op, stage |-> "", actor |-> actor, sess |-> "",
     table |-> "storage.objects", id |-> 0, path |-> path, size |-> 0,
     error |-> err, count |-> cnt, outcome |-> ""]
\* The step l as a part of an awaiting handler.
Stage(l, stage) == [l EXCEPT !.stage = stage]

\* date-fns isPast(date): date < Date.now().
IsPast(date, now) == date < now

\* The runs of the pages have an id left for a new submission, and have
\* deleted no more submissions than they may replace.
CanDraft == nextId <= MaxIds /\ nextId - 1 - Cardinality(db) <= MaxRedrafts

\* ------------------------------------------------------------- handlers that await
\* A call of an async handler of tab s (or, with s = "", of a list page of
\* account u) that has not returned: what it captured from the render whose
\* closure it is, how many of its requests the store has answered (step) and
\* the answer.  orphan: the component that made the call is unmounted, its
\* handler goes on and what it sets is lost.  discarded: the document that
\* made the call is unloaded and its script with it, nothing follows the
\* answer.
Call(s, u, op) ==
    [sess |-> s, actor |-> u, op |-> op, step |-> 0, orphan |-> FALSE,
     discarded |-> FALSE, copy |-> 0,
     id |-> 0, row |-> NoRow, content |-> "", file |-> NoDescriptor,
     size |-> 0, list |-> {}, error |-> "", count |-> 0, data |-> NoRow,
     rows |-> {}]

\* The handlers that only read: the read of an unloaded document leaves no
\* trace.
ReadOps == {"fetch", "fetchNotes", "fetchAssignments"}

\* The handlers that await an answer at a time, and the runs of its effect
\* one component has in flight at a time.
MaxCalls == 2
MaxRuns == 1

\* The calls cs and one more: calls alike in everything are told apart by
\* copy, which counts them from 0.
Put(cs, call) ==
    LET like(k) == [call EXCEPT !.copy = k]
        free == {k \in 0 .. Cardinality(cs) : like(k) \notin cs}
    IN  cs \cup {like(CHOOSE k \in free : \A j \in free : k <= j)}

\* The calls cs without call c: of the calls like c the last copy goes.
Take(cs, c) ==
    LET like == {x \in cs : [x EXCEPT !.copy = c.copy] = c}
    IN  cs \ {CHOOSE x \in like : \A y \in like : y.copy <= x.copy}

\* What is left of call c of a component that is gone once the store has
\* answered it: the handler sets nothing with what it captured and what it got,
\* and reports from the answer's error.
Left(c) ==
    IF c.step = 0 THEN c
    ELSE [Call(c.sess, c.actor, c.op) EXCEPT
             !.step = c.step, !.orphan = TRUE, !.error = c.error, !.count = c.count,
             !.id = c.id]

\* The calls in flight once the store has answered call c with new: the
\* answer to an unloaded document is dropped.
Answered(c, new) ==
    IF c.discarded THEN Take(calls, c)
    ELSE Put(Take(calls, c), IF c.orphan THEN Left(new) ELSE new)

\* The calls in flight once the component of the calls gone unmounts, kept
\* being the calls of the other components.  load: the document is loaded
\* anew, its script is gone, and of its calls only what was sent and not yet
\* answered still reaches the store.  Otherwise the router replaces the
\* component and every handler goes on.
RECURSIVE Unmounted(_, _, _)
Unmounted(kept, gone, load) ==
    IF gone = {} THEN kept
    ELSE LET c == CHOOSE x \in gone : TRUE
         IN  IF load /\ ~ c.discarded /\ (c.step # 0 \/ c.op \in ReadOps)
             THEN Unmounted(kept, gone \ {c}, load)
             ELSE Unmounted(Put(kept, Left([c EXCEPT !.orphan = TRUE,
                                                    !.discarded = @ \/ load])),
                            gone \ {c}, load)

\* The calls in flight once the component of the calls gone unmounts and the
\* component that takes its place makes the call first.
Remounted(gone, load, first) == Put(Unmounted(calls \ gone, gone, load), first)

\* ------------------------------------------------------------- AssignmentDetail
\* assignments: SELECT TO authenticated USING (true).
AssignmentsSelectPolicy(uid) == uid # Anon

\* submitting and uploading: true from the handler's call to its finally.
submitting(s) ==
    \E c \in calls :
        /\ c.sess = s /\ ~ c.orphan
        /\ c.op \in {"onSubmit", "onSubmitFileUrl", "handleSubmitAssignment",
                     "handleDeleteSubmission"}
uploading(s) ==
    \E c \in calls : c.sess = s /\ ~ c.orphan /\ c.op = "handleFileUpload"

\* The values the component computes on every render.
canSubmit(s) ==
    /\ submission[s] # NoRow
    /\ submission[s].status = "draft"
    /\ ~ isOverdue[s]
canEdit(s) ==
    \/ submission[s] = NoRow
    \/ submission[s].status = "draft" /\ ~ isOverdue[s]

\* Which of the three panes the submission card renders.
View(s) ==
    IF loading[s] \/ error[s] THEN "none"
    ELSE IF isEditing[s] \/ (submission[s] = NoRow /\ canEdit(s)) THEN "form"
    ELSE IF submission[s] # NoRow THEN "detail"
    ELSE "empty"

\* A state change that leaves loading and error as they are re-renders the
\* component of tab s: past the spinner and the error pane, isOverdue is
\* computed from the clock of that instant.  The other tabs do not render.
Render(s) ==
    isOverdue' = [isOverdue EXCEPT
                    ![s] = IF loading[s] \/ error[s] THEN @
                           ELSE IsPast(DueDate(SessAssignment(s)), clock)]

\* Whether tab s shows a component: it has finished a run of its effect or
\* has one in flight.
Mounted(s) ==
    ~ loading[s] \/ \E c \in calls : c.sess = s /\ ~ c.orphan /\ c.op = "fetch"

\* The page is opened, by a load of the document or by the router (a link
\* back to the page): the component mounts with the initial values of its
\* state and its effect starts (setLoading(true)).  The component the tab
\* showed before is gone.
AssignmentDetail(s, load) ==
    LET u == SessUser(s)
    IN  /\ loading' = [loading EXCEPT ![s] = TRUE]
        /\ submission' = [submission EXCEPT ![s] = NoRow]
        /\ isEditing' = [isEditing EXCEPT ![s] = FALSE]
        /\ uploadedFile' = [uploadedFile EXCEPT ![s] = NoDescriptor]
        /\ error' = [error EXCEPT ![s] = FALSE]
        /\ calls' = Remounted({c \in calls : c.sess = s}, load, Call(s, u, "fetch"))
        /\ Cardinality(calls') <= MaxCalls
        /\ last' = Stage(Last("fetch", u, s, "submissions", 0, "", 0, ""), "mount")
        /\ UNCHANGED <<db, nextId, profiles, accounts, objects, clock, isOverdue,
                       notesPage, assignmentRows, categories, bodies, auth,
                       assignmentsPage>>

\* The effect runs again in the mounted component, its dependency user being
\* a new object after an event of the auth context: setLoading(true).
fetchAssignmentAndSubmissionStart(s) ==
    LET u == SessUser(s)
    IN  /\ Mounted(s)
        /\ Cardinality({c \in calls : c.sess = s /\ ~ c.orphan /\ c.op = "fetch"})
              < MaxRuns
        /\ loading' = [loading EXCEPT ![s] = TRUE]
        /\ Cardinality(calls) < MaxCalls
        /\ calls' = Put(calls, Call(s, u, "fetch"))
        /\ last' = Stage(Last("fetch", u, s, "submissions", 0, "", 0, ""), "start")
        /\ UNCHANGED <<db, nextId, profiles, accounts, objects, clock, submission,
                       isEditing, uploadedFile, isOverdue, error, notesPage, assignmentRows,
                       categories, bodies, auth, assignmentsPage>>

\* The two selects of the effect: the assignment (single(): no row is an
\* error, and the effect throws), then the account's submission for it.
\* fails: the store cannot be reached.
fetchAssignmentAndSubmissionRequest(c, fails) ==
    LET u == c.actor
        a == SessAssignment(c.sess)
        ok == a \in assignmentRows /\ AssignmentsSelectPolicy(u)
        found == {r \in db : /\ r.table = "submissions"
                             /\ r.parent = a
                             /\ r.user_id = u
                             /\ Policy("select", u, r)}
        \* maybeSingle(): more than one row is an error
        failed == Cardinality(found) > 1
        data == IF found = {} \/ failed THEN NoRow ELSE CHOOSE r \in found : TRUE
        new == IF fails THEN [c EXCEPT !.step = 2, !.error = "500"]
               ELSE IF c.step = 0
               THEN IF ok THEN [c EXCEPT !.step = 1]
                    ELSE [c EXCEPT !.step = 2, !.error = "PGRST116"]
               ELSE [c EXCEPT !.step = 2, !.data = data, !.id = data.id,
                              !.count = Cardinality(found),
                              !.error = IF failed THEN "PGRST116" ELSE ""]
    IN  /\ c.op = "fetch"
        /\ c.step < 2
        /\ calls' = Answered(c, new)
        /\ last' = Stage(Last("fetch", u, c.sess,
                              IF c.step = 0 THEN "assignments" ELSE "submissions",
                              new.id, new.error,
                              IF fails THEN 0
                              ELSE IF c.step = 0 THEN (IF ok THEN 1 ELSE 0)
                              ELSE new.count, ""), "request")
        /\ UNCHANGED <<db, nextId, profiles, accounts, objects, clock, loading,
                       submission, isEditing, uploadedFile, isOverdue, error,
                       notesPage, assignmentRows, categories, bodies, auth,
                       assignmentsPage>>

\* The effect from its answers: setAssignment, setSubmission and, for a row
\* with file_url and file_name, setUploadedFile; catch: setError; finally
\* setLoading(false).  In a component that is gone they set nothing.
fetchAssignmentAndSubmission(c) ==
    LET s == c.sess
    IN  /\ c.op = "fetch"
        /\ c.step = 2
        /\ calls' = Take(calls, c)
        /\ IF c.orphan
           THEN /\ UNCHANGED <<loading, error, submission, uploadedFile, isOverdue>>
                /\ last' = Stage(Last("fetch", c.actor, s, "submissions", c.id,
                                      c.error, c.count, ""), "answer")
           ELSE /\ loading' = [loading EXCEPT ![s] = FALSE]
                /\ error' = [error EXCEPT ![s] = @ \/ c.error # ""]
                /\ submission' = [submission EXCEPT
                                    ![s] = IF c.error = "" THEN c.data ELSE @]
                /\ uploadedFile' =
                      [uploadedFile EXCEPT
                         ![s] = IF /\ c.error = ""
                                   /\ c.data # NoRow
                                   /\ c.data.file_url # NoFile
                                   /\ c.data.file_name # NoName
                                THEN Descriptor(c.data.file_url, c.data.file_name)
                                ELSE @]
                /\ isOverdue' = [isOverdue EXCEPT
                                   ![s] = IF error[s] \/ c.error # "" THEN @
                                          ELSE IsPast(DueDate(SessAssignment(s)),
                                                      clock)]
                /\ last' = Stage(Last("fetch", c.actor, s, "submissions", c.id,
                                      c.error, c.count,
                                      IF c.error = "" THEN "" ELSE "error"), "answer")
        /\ UNCHANGED <<db, nextId, profiles, accounts, objects, clock, isEditing,
                       notesPage, assignmentRows, categories, bodies, auth,
                       assignmentsPage>>

\* The Edit button of the detail pane.
ClickEdit(s) ==
    /\ View(s) = "detail"
    /\ canEdit(s)
    /\ ~ submitting(s)
    /\ isEditing' = [isEditing EXCEPT ![s] = TRUE]
    /\ Render(s)
    /\ last' = Last("edit", SessUser(s), s, "", 0, "", 0, "")
    /\ UNCHANGED <<db, nextId, profiles, accounts, objects, clock, loading, submission,
                   uploadedFile, error, notesPage, assignmentRows, categories,
                   bodies, auth, assignmentsPage, calls>>

\* The Cancel button of the form: the form's attachment is again that of the
\* local row if the row has file_url and file_name, and none otherwise.
Cancel(s) ==
    /\ View(s) = "form"
    /\ isEditing' = [isEditing EXCEPT ![s] = FALSE]
    /\ uploadedFile' =
          [uploadedFile EXCEPT
             ![s] = IF /\ submission[s] # NoRow
                       /\ submission[s].file_url # NoFile
                       /\ submission[s].file_name # NoName
                    THEN Descriptor(submission[s].file_url, submission[s].file_name)
                    ELSE NoDescriptor]
    /\ Render(s)
    /\ last' = Last("cancel", SessUser(s), s, "", 0, "", 0, "")
    /\ UNCHANGED <<db, nextId, profiles, accounts, objects, clock, loading, submission,
                   error, notesPage, assignmentRows, categories, bodies, auth,
                   assignmentsPage, calls>>

\* The columns the update branch of Save as Draft sets (file_type, file_size
\* and updated_at, which the rows here do not carry, aside).
DraftPatchWithStatus(content, file) ==
    [content |-> content, file_url |-> file.url, file_name |-> file.name,
     status |-> "submitted"]
DraftPatch(content, file) ==
    [content |-> content, file_url |-> file.url, file_name |-> file.name]

\* Save as Draft, the form's submit handler with the form's content, up to
\* its await: setSubmitting(true); the request is built from the submission
\* and the uploadedFile of the render the form was submitted in.
onSubmitStart(s, content) ==
    LET u == SessUser(s)
    IN  /\ View(s) = "form"
        /\ ~ submitting(s)
        /\ Cardinality(calls) < MaxCalls
        /\ calls' = Put(calls, [Call(s, u, "onSubmit") EXCEPT
                                   !.row = submission[s],
                                   !.id = submission[s].id,
                                   !.content = content,
                                   !.file = uploadedFile[s]])
        /\ Render(s)
        /\ last' = Stage(Last("onSubmit", u, s, "submissions", submission[s].id,
                              "", 0, ""), "start")
        /\ UNCHANGED <<db, nextId, profiles, accounts, objects, clock, loading,
                       submission, isEditing, uploadedFile, error, notesPage,
                       assignmentRows, categories, bodies, auth, assignmentsPage>>

\* The store answers the request of Save as Draft: an update of the row the
\* form held, or an insert if it held none.
onSubmitRequest(c) ==
    LET u == c.actor
        upd == StoreUpdate(db, u, "submissions", {c.row.id},
                           DraftPatch(c.content, c.file))
        new == Patched(Row("submissions", nextId, u, SessAssignment(c.sess),
                           c.content, NoFile, "draft"),
                       [file_url |-> c.file.url, file_name |-> c.file.name])
        ins == StoreInsert(db, profiles, u, new)
    IN  /\ c.op = "onSubmit"
        /\ c.step = 0
        /\ IF c.row # NoRow
           THEN /\ db' = upd.db
                /\ UNCHANGED nextId
                /\ calls' = Answered(c, [c EXCEPT !.step = 1, !.error = upd.error,
                                                  !.count = upd.count])
                /\ last' = Stage(Last("onSubmit", u, c.sess, "submissions", c.id,
                                      upd.error, upd.count, ""), "request")
           ELSE /\ ins.error = "" => CanDraft
                /\ db' = ins.db
                /\ nextId' = IF ins.error = "" THEN nextId + 1 ELSE nextId
                /\ calls' = Answered(c, [c EXCEPT
                                           !.step = 1, !.error = ins.error,
                                           !.count = IF ins.error = "" THEN 1 ELSE 0,
                                           !.data = ins.row, !.id = ins.row.id])
                /\ last' = Stage(Last("onSubmit", u, c.sess, "submissions",
                                      ins.row.id, ins.error,
                                      IF ins.error = "" THEN 1 ELSE 0, ""), "request")
        /\ UNCHANGED <<profiles, accounts, objects, clock, loading, submission,
                       isEditing, uploadedFile, isOverdue, error, notesPage,
                       assignmentRows, categories, bodies, auth, assignmentsPage>>

\* Save as Draft from the answer: setSubmission with the inserted row,
\* setIsEditing(false) and toast.success, or toast.error; finally
\* setSubmitting(false).  In a component that is gone only the toast is left.
onSubmit(c) ==
    LET s == c.sess
    IN  /\ c.op \in {"onSubmit", "onSubmitFileUrl"}
        /\ c.step = 1
        /\ calls' = Take(calls, c)
        /\ IF c.orphan
           THEN UNCHANGED <<submission, isEditing, isOverdue>>
           ELSE /\ submission' = [submission EXCEPT
                                    ![s] = IF c.error = "" /\ c.row = NoRow
                                           THEN c.data ELSE @]
                /\ isEditing' = [isEditing EXCEPT
                                   ![s] = IF c.error = "" THEN FALSE ELSE @]
                /\ Render(s)
        /\ last' = Stage(Last("onSubmit", c.actor, s, "submissions", c.id, c.error,
                              c.count, IF c.error = "" THEN "success" ELSE "error"),
                         "answer")
        /\ UNCHANGED <<db, nextId, profiles, accounts, objects, clock, loading,
                       uploadedFile, error, notesPage, assignmentRows, categories,
                       bodies, auth, assignmentsPage>>

\* The Submit Assignment button of the detail pane (the confirm dialog
\* accepted), up to its await.
handleSubmitAssignmentStart(s) ==
    LET u == SessUser(s)
    IN  /\ View(s) = "detail"
        /\ canSubmit(s)
        /\ ~ submitting(s)
        /\ Cardinality(calls) < MaxCalls
        /\ calls' = Put(calls, [Call(s, u, "handleSubmitAssignment") EXCEPT
                                   !.row = submission[s], !.id = submission[s].id])
        /\ Render(s)
        /\ last' = Stage(Last("handleSubmitAssignment", u, s, "submissions",
                              submission[s].id, "", 0, ""), "start")
        /\ UNCHANGED <<db, nextId, profiles, accounts, objects, clock, loading,
                       submission, isEditing, uploadedFile, error, notesPage,
                       assignmentRows, categories, bodies, auth, assignmentsPage>>

\* The store answers update({status: 'submitted'}).eq('id', submission.id).
handleSubmitAssignmentRequest(c) ==
    LET upd == StoreUpdate(db, c.actor, "submissions", {c.row.id},
                           [status |-> "submitted"])
    IN  /\ c.op = "handleSubmitAssignment"
        /\ c.step = 0
        /\ db' = upd.db
        /\ calls' = Answered(c, [c EXCEPT !.step = 1, !.error = upd.error,
                                          !.count = upd.count])
        /\ last' = Stage(Last("handleSubmitAssignment", c.actor, c.sess,
                              "submissions", c.id, upd.error, upd.count, ""),
                         "request")
        /\ UNCHANGED <<nextId, profiles, accounts, objects, clock, loading,
                       submission, isEditing, uploadedFile, isOverdue, error,
                       notesPage, assignmentRows, categories, bodies, auth,
                       assignmentsPage>>

\* Submit Assignment from the answer: setSubmission({...submission, status:
\* 'submitted'}) with the submission of the render the button was clicked in
\* and toast.success, or toast.error.  In a component that is gone only the
\* toast is left.
handleSubmitAssignment(c) ==
    LET s == c.sess
    IN  /\ c.op = "handleSubmitAssignment"
        /\ c.step = 1
        /\ calls' = Take(calls, c)
        /\ IF c.orphan
           THEN UNCHANGED <<submission, isOverdue>>
           ELSE /\ submission' = [submission EXCEPT
                                    ![s] = IF c.error = ""
                                           THEN [c.row EXCEPT !.status = "submitted"]
                                           ELSE @]
                /\ Render(s)
        /\ last' = Stage(Last("handleSubmitAssignment", c.actor, s, "submissions",
                              c.id, c.error, c.count,
                              IF c.error = "" THEN "success" ELSE "error"), "answer")
        /\ UNCHANGED <<db, nextId, profiles, accounts, objects, clock, loading,
                       isEditing, uploadedFile, error, notesPage, assignmentRows,
                       categories, bodies, auth, assignmentsPage>>

\* The Delete button of the detail pane (the confirm dialog accepted), up to
\* its await, or to its return for a submission that is 'submitted'.
handleDeleteSubmissionStart(s) ==
    LET u == SessUser(s)
    IN  /\ View(s) = "detail"
        /\ canEdit(s)
        /\ ~ submitting(s)
        /\ IF submission[s].status = "submitted"
           THEN /\ UNCHANGED <<calls, isOverdue>>
                /\ last' = Stage(Last("handleDeleteSubmission", u, s, "submissions",
                                      submission[s].id, "", 0, "error"), "start")
           ELSE /\ Cardinality(calls) < MaxCalls
                /\ calls' = Put(calls, [Call(s, u, "handleDeleteSubmission") EXCEPT
                                           !.row = submission[s],
                                           !.id = submission[s].id])
                /\ Render(s)
                /\ last' = Stage(Last("handleDeleteSubmission", u, s, "submissions",
                                      submission[s].id, "", 0, ""), "start")
        /\ UNCHANGED <<db, nextId, profiles, accounts, objects, clock, loading,
                       submission, isEditing, uploadedFile, error, notesPage,
                       assignmentRows, categories, bodies, auth, assignmentsPage>>

\* The store answers delete().eq('id', submission.id).
handleDeleteSubmissionRequest(c) ==
    LET del == StoreDelete(db, c.actor, "submissions", {c.row.id})
    IN  /\ c.op = "handleDeleteSubmission"
        /\ c.step = 0
        /\ db' = del.db
        /\ calls' = Answered(c, [c EXCEPT !.step = 1, !.error = del.error,
                                          !.count = del.count])
        /\ last' = Stage(Last("handleDeleteSubmission", c.actor, c.sess,
                              "submissions", c.id, del.error, del.count, ""),
                         "request")
        /\ UNCHANGED <<nextId, profiles, accounts, objects, clock, loading,
                       submission, isEditing, uploadedFile, isOverdue, error,
                       notesPage, assignmentRows, categories, bodies, auth,
                       assignmentsPage>>

\* Delete from the answer: setSubmission(null), setUploadedFile(null) and
\* toast.success, or toast.error.  In a component that is gone only the toast
\* is left.
handleDeleteSubmission(c) ==
    LET s == c.sess
    IN  /\ c.op = "handleDeleteSubmission"
        /\ c.step = 1
        /\ calls' = Take(calls, c)
        /\ IF c.orphan
           THEN UNCHANGED <<submission, uploadedFile, isOverdue>>
           ELSE /\ submission' = [submission EXCEPT
                                    ![s] = IF c.error = "" THEN NoRow ELSE @]
                /\ uploadedFile' = [uploadedFile EXCEPT
                                      ![s] = IF c.error = "" THEN NoDescriptor ELSE @]
                /\ Render(s)
        /\ last' = Stage(Last("handleDeleteSubmission", c.actor, s, "submissions",
                              c.id, c.error, c.count,
                              IF c.error = "" THEN "success" ELSE "error"), "answer")
        /\ UNCHANGED <<db, nextId, profiles, accounts, objects, clock, loading,
                       isEditing, error, notesPage, assignmentRows, categories,
                       bodies, auth, assignmentsPage>>

\* Time passes; no component renders because of it.
Tick ==
    /\ clock < MaxClock
    /\ clock' = clock + 1
    /\ last' = Last("tick", Anon, "", "", 0, "", 0, "")
    /\ UNCHANGED <<db, nextId, profiles, accounts, objects, loading, submission,
                   isEditing, uploadedFile, isOverdue, error, notesPage,
                   assignmentRows, categories, bodies, auth, assignmentsPage, calls>>

\* ------------------------------------------------------------- direct requests
\* A request an actor sends to the row store with the project's public key
\* and its own session, outside the pages: the policies alone decide it.
RawInsert(actor, t, owner, parent, content) ==
    LET new == Row(t, nextId, owner, parent, content, NoFile, DefaultStatus(t))
        ins == StoreInsert(db, profiles, actor, new)
    IN  /\ nextId <= MaxIds
        /\ db' = ins.db
        /\ nextId' = IF ins.error = "" THEN nextId + 1 ELSE nextId
        /\ last' = Last("insert", actor, "", t, ins.row.id, ins.error,
                        IF ins.error = "" THEN 1 ELSE 0, "")
        /\ UNCHANGED <<profiles, accounts, objects, clock, loading, submission,
                       isEditing, uploadedFile, isOverdue, error, notesPage,
                       assignmentRows, categories, bodies, auth, assignmentsPage, calls>>

RawUpdate(actor, t, id, patch) ==
    LET upd == StoreUpdate(db, actor, t, {id}, patch)
    IN  /\ db' = upd.db
        /\ last' = Last("update", actor, "", t, id, upd.error, upd.count, "")
        /\ UNCHANGED <<nextId, profiles, accounts, objects, clock, loading, submission,
                       isEditing, uploadedFile, isOverdue, error, notesPage,
                       assignmentRows, categories, bodies, auth, assignmentsPage, calls>>

RawDelete(actor, t, id) ==
    LET del == StoreDelete(db, actor, t, {id})
    IN  /\ db' = del.db
        /\ last' = Last("delete", actor, "", t, id, del.error, del.count, "")
        /\ UNCHANGED <<nextId, profiles, accounts, objects, clock, loading, submission,
                       isEditing, uploadedFile, isOverdue, error, notesPage,
                       assignmentRows, categories, bodies, auth, assignmentsPage, calls>>

RawSelect(actor, t, id) ==
    LET got == StoreSelect(db, actor, t, {id})
    IN  /\ last' = Last("select", actor, "", t, id, "", Cardinality(got), "")
        /\ UNCHANGED <<db, nextId, profiles, accounts, objects, clock, loading,
                       submission, isEditing, uploadedFile, isOverdue, error,
                       notesPage, assignmentRows, categories, bodies, auth,
                       assignmentsPage, calls>>

\* SELECT * FROM profiles WHERE id = id.  The profile's id, an account id, is
\* recorded as the one segment of path.
RawSelectProfile(actor, id) ==
    LET ok == id \in profiles /\ ProfilesSelectPolicy(actor, id)
    IN  /\ last' = [Last("select", actor, "", "profiles", 0, "",
                         IF ok THEN 1 ELSE 0, "") EXCEPT !.path = <<id>>]
        /\ UNCHANGED <<db, nextId, profiles, accounts, objects, clock, loading,
                       submission, isEditing, uploadedFile, isOverdue, error,
                       notesPage, assignmentRows, categories, bodies, auth,
                       assignmentsPage, calls>>

\* The columns a direct update of a submission sets in the lifecycle runs.
SubmissionPatches ==
    {[content |-> FormContent]}
    \cup {[status |-> st] : st \in {"draft", "submitted"}}

\* ------------------------------------------------------------- lifecycle
\* AuthProvider as constructed (loading = true, user = null) on a protected
\* route, in a browser whose stored session is that of token (NoUser: none).
\* getSession is whether the effect's getSession() is still pending.  The
\* handlers of the context that await the auth server are among calls.
AuthState(token) ==
    [loading |-> TRUE, user |-> NoUser, token |-> token, getSession |-> TRUE,
     location |-> "/dashboard"]

\* The state of the Notes page and of the Assignments page as constructed.
NotesState == [notes |-> {}, categories |-> {}, loading |-> TRUE, error |-> FALSE]
AssignmentsState == [assignments |-> {}, loading |-> TRUE, error |-> FALSE]

\* The client as constructed, no page opened yet.
InitClient ==
    /\ clock = 0
    /\ loading = [s \in Sessions |-> TRUE]
    /\ submission = [s \in Sessions |-> NoRow]
    /\ isEditing = [s \in Sessions |-> FALSE]
    /\ uploadedFile = [s \in Sessions |-> NoDescriptor]
    /\ isOverdue = [s \in Sessions |-> FALSE]
    /\ error = [s \in Sessions |-> FALSE]
    /\ notesPage = [u \in Users |-> NotesState]
    /\ assignmentsPage = [u \in Users |-> AssignmentsState]
    /\ calls = {}
    /\ last = Last("init", Anon, "", "", 0, "", 0, "")

InitCommon ==
    /\ db = {}
    /\ nextId = 1
    /\ profiles = Users
    /\ accounts = Users
    /\ assignmentRows = Assignments
    /\ categories = Categories
    /\ objects = {}
    /\ bodies = {}
    /\ auth = AuthState(NoUser)
    /\ InitClient

Init == InitCommon

\* The events of the page in tab s and of its calls in flight.
DetailStep(s) ==
    \/ \E load \in BOOLEAN : AssignmentDetail(s, load)
    \/ fetchAssignmentAndSubmissionStart(s)
    \/ ClickEdit(s)
    \/ Cancel(s)
    \/ handleSubmitAssignmentStart(s)
    \/ handleDeleteSubmissionStart(s)
    \/ \E c \in calls :
          \/ \E fails \in BOOLEAN : fetchAssignmentAndSubmissionRequest(c, fails)
          \/ fetchAssignmentAndSubmission(c)
          \/ onSubmit(c)
          \/ handleSubmitAssignmentRequest(c)
          \/ handleSubmitAssignment(c)
          \/ handleDeleteSubmissionRequest(c)
          \/ handleDeleteSubmission(c)

\* Save as Draft of the form in tab s, and the store answering its request.
SaveStep(s) ==
    \/ onSubmitStart(s, FormContent)
    \/ \E c \in calls : c.sess = s /\ onSubmitRequest(c)

\* The runs follow one tab, or the two tabs of the account.
OneTab == {"tabA"}
OneTabStep == \E s \in OneTab : DetailStep(s) \/ SaveStep(s)
TabsStep == \E s \in Sessions : DetailStep(s) \/ SaveStep(s)

\* Direct requests of any account against the submission of the tabs' account.
DirectSubmissionStep ==
    \E actor \in Users :
        \/ \E s \in OneTab :
              /\ CanDraft
              /\ RawInsert(actor, "submissions", SessUser(s), SessAssignment(s),
                           FormContent)
        \/ \E id \in RowIds(db, "submissions"), p \in SubmissionPatches :
              RawUpdate(actor, "submissions", id, p)
        \/ \E id \in RowIds(db, "submissions") : RawDelete(actor, "submissions", id)

\* One tab of the page, the direct requests of the accounts and the clock.
Next == OneTabStep \/ DirectSubmissionStep \/ Tick

Spec == Init /\ [][Next]_vars

\* The two tabs of the account, before the due date.
NextTabs == TabsStep

SpecTabs == Init /\ [][NextTabs]_vars

\* ------------------------------------------------------------- Notes page
\* Whether account u has the Notes page open.
NotesMounted(u) ==
    \/ ~ notesPage[u].loading
    \/ \E c \in calls : c.actor = u /\ ~ c.orphan /\ c.op = "fetchNotes"

\* The Notes page is opened: the component mounts with the initial values of
\* its state and its effect starts (setLoading(true)).
Notes(u, load) ==
    /\ notesPage' = [notesPage EXCEPT ![u] = NotesState]
    /\ calls' = Remounted({c \in calls : c.actor = u
                                         /\ c.op \in {"fetchNotes", "handleDeleteNote"}},
                          load, Call("", u, "fetchNotes"))
    /\ Cardinality(calls') <= MaxCalls
    /\ last' = Stage(Last("fetchNotes", u, "", "notes", 0, "", 0, ""), "mount")
    /\ UNCHANGED <<db, nextId, profiles, accounts, objects, clock, loading,
                   submission, isEditing, uploadedFile, isOverdue, error,
                   assignmentRows, categories, bodies, auth, assignmentsPage>>

\* The effect runs again in the mounted page, its dependency user being a new
\* object: setLoading(true).
fetchNotesStart(u) ==
    /\ NotesMounted(u)
    /\ Cardinality({c \in calls : c.actor = u /\ ~ c.orphan /\ c.op = "fetchNotes"})
          < MaxRuns
    /\ notesPage' = [notesPage EXCEPT ![u].loading = TRUE]
    /\ Cardinality(calls) < MaxCalls
    /\ calls' = Put(calls, Call("", u, "fetchNotes"))
    /\ last' = Stage(Last("fetchNotes", u, "", "notes", 0, "", 0, ""), "start")
    /\ UNCHANGED <<db, nextId, profiles, accounts, objects, clock, loading,
                   submission, isEditing, uploadedFile, isOverdue, error,
                   assignmentRows, categories, bodies, auth, assignmentsPage>>

\* The two selects of the effect: the categories of type 'note', then the
\* account's notes.  fails: the store cannot be reached.
fetchNotesRequest(c, fails) ==
    LET u == c.actor
        \* categories: SELECT TO authenticated USING (true)
        cats == IF u # Anon
                THEN {k \in categories : CategoryType(k) = "note"} ELSE {}
        found == {r \in db : /\ r.table = "notes"
                             /\ r.user_id = u
                             /\ Policy("select", u, r)}
        new == IF fails THEN [c EXCEPT !.step = 2, !.error = "500"]
               ELSE IF c.step = 0
               THEN [c EXCEPT !.step = 1, !.rows = cats]
               ELSE [c EXCEPT !.step = 2, !.list = {r.id : r \in found},
                              !.count = Cardinality(found)]
    IN  /\ c.op = "fetchNotes"
        /\ c.step < 2
        /\ calls' = Answered(c, new)
        /\ last' = Stage(Last("fetchNotes", u, "",
                              IF c.step = 0 THEN "categories" ELSE "notes", 0,
                              new.error,
                              IF fails THEN 0
                              ELSE IF c.step = 0 THEN Cardinality(cats)
                              ELSE new.count, ""), "request")
        /\ UNCHANGED <<db, nextId, profiles, accounts, objects, clock, loading,
                       submission, isEditing, uploadedFile, isOverdue, error,
                       notesPage, assignmentRows, categories, bodies, auth,
                       assignmentsPage>>

\* The effect from its answers: setCategories and setNotes, or setError;
\* finally setLoading(false).  In a page that is gone they set nothing.
fetchNotes(c) ==
    LET u == c.actor
    IN  /\ c.op = "fetchNotes"
        /\ c.step = 2
        /\ calls' = Take(calls, c)
        /\ notesPage' =
              [notesPage EXCEPT
                 ![u] = IF c.orphan THEN @
                        ELSE IF c.error = ""
                        THEN [@ EXCEPT !.categories = c.rows, !.notes = c.list,
                                       !.loading = FALSE]
                        ELSE [@ EXCEPT !.error = TRUE, !.loading = FALSE]]
        /\ last' = Stage(Last("fetchNotes", u, "", "notes", 0, c.error, c.count,
                              IF c.error = "" \/ c.orphan THEN "" ELSE "error"),
                         "answer")
        /\ UNCHANGED <<db, nextId, profiles, accounts, objects, clock, loading,
                       submission, isEditing, uploadedFile, isOverdue, error,
                       assignmentRows, categories, bodies, auth, assignmentsPage>>

\* The delete button of the card of note id in the page's list, up to its
\* await: the request names the note by id alone.  The handler is the closure
\* of the render the button was clicked in, with the list of that render.
handleDeleteNoteStart(u, id) ==
    /\ ~ notesPage[u].loading
    /\ ~ notesPage[u].error
    /\ id \in notesPage[u].notes
    /\ Cardinality(calls) < MaxCalls
    /\ calls' = Put(calls, [Call("", u, "handleDeleteNote") EXCEPT
                               !.id = id, !.list = notesPage[u].notes])
    /\ last' = Stage(Last("handleDeleteNote", u, "", "notes", id, "", 0, ""), "start")
    /\ UNCHANGED <<db, nextId, profiles, accounts, objects, clock, loading,
                   submission, isEditing, uploadedFile, isOverdue, error, notesPage,
                   assignmentRows, categories, bodies, auth, assignmentsPage>>

\* The store answers delete().eq('id', id).  fails: the store cannot be
\* reached.
handleDeleteNoteRequest(c, fails) ==
    LET del == StoreDelete(db, c.actor, "notes", {c.id})
        err == IF fails THEN "500" ELSE del.error
    IN  /\ c.op = "handleDeleteNote"
        /\ c.step = 0
        /\ db' = IF fails THEN db ELSE del.db
        /\ calls' = Answered(c, [c EXCEPT !.step = 1, !.error = err,
                                          !.count = IF fails THEN 0 ELSE del.count])
        /\ last' = Stage(Last("handleDeleteNote", c.actor, "", "notes", c.id, err,
                              IF fails THEN 0 ELSE del.count, ""), "request")
        /\ UNCHANGED <<nextId, profiles, accounts, objects, clock, loading,
                       submission, isEditing, uploadedFile, isOverdue, error,
                       notesPage, assignmentRows, categories, bodies, auth,
                       assignmentsPage>>

\* handleDeleteNote from the answer: setNotes(notes.filter(...)) with the list
\* of the render the button was clicked in, or setError.  In a page that is
\* gone they set nothing, and the handler has nothing else to report with.
handleDeleteNote(c) ==
    LET u == c.actor
    IN  /\ c.op = "handleDeleteNote"
        /\ c.step = 1
        /\ calls' = Take(calls, c)
        /\ notesPage' = [notesPage EXCEPT
                           ![u] = IF c.orphan THEN @
                                  ELSE IF c.error = ""
                                  THEN [@ EXCEPT !.notes = c.list \ {c.id}]
                                  ELSE [@ EXCEPT !.error = TRUE]]
        /\ last' = Stage(Last("handleDeleteNote", u, "", "notes", c.id, c.error,
                              c.count,
                              IF c.orphan THEN ""
                              ELSE IF c.error = "" THEN "success" ELSE "error"),
                         "answer")
        /\ UNCHANGED <<db, nextId, profiles, accounts, objects, clock, loading,
                       submission, isEditing, uploadedFile, isOverdue, error,
                       assignmentRows, categories, bodies, auth, assignmentsPage>>

\* The Notes page of either account: its delete buttons are those of the
\* cards of its own list.
NotesStep ==
    \/ \E u \in Users :
          \/ \E load \in BOOLEAN : Notes(u, load)
          \/ fetchNotesStart(u)
          \/ \E id \in notesPage[u].notes : handleDeleteNoteStart(u, id)
    \/ \E c \in calls :
          \/ \E fails \in BOOLEAN : fetchNotesRequest(c, fails)
          \/ fetchNotes(c)
          \/ \E fails \in BOOLEAN : handleDeleteNoteRequest(c, fails)
          \/ handleDeleteNote(c)

\* The accounts write notes of their own and delete them, beside the pages.
NoteRowStep ==
    \E actor \in Users :
        \/ RawInsert(actor, "notes", actor, NoParent, FormContent)
        \/ \E id \in RowIds(db, "notes") : RawDelete(actor, "notes", id)

NextNotes == NotesStep \/ NoteRowStep

SpecNotes == Init /\ [][NextNotes]_vars

\* Staff set the status of a feedback row with the service role, which row
\* level security does not bind.
ReviewFeedback(id, st) ==
    /\ \E r \in db : r.table = "feedback" /\ r.id = id /\ r.status # st
    /\ db' = {IF r.table = "feedback" /\ r.id = id
              THEN [r EXCEPT !.status = st] ELSE r : r \in db}
    /\ last' = Last("review", "service_role", "", "feedback", id, "", 1, "")
    /\ UNCHANGED <<nextId, profiles, accounts, objects, clock, loading, submission,
                   isEditing, uploadedFile, isOverdue, error, notesPage,
                   assignmentRows, categories, bodies, auth, assignmentsPage, calls>>

\* ------------------------------------------------------------- object store
\* A path in bucket 'attachments': <<folder, name>>; (storage.foldername(name))[1]
\* is its first segment.
FolderName(path) == path[1]

\* INSERT INTO storage.buckets (id, name, public) VALUES ('attachments', ..., true)
BucketPublic == TRUE

ObjectsInsertPolicy(uid, path) == uid # Anon /\ uid = FolderName(path)
ObjectsSelectOwnPolicy(uid, path) == uid # Anon /\ uid = FolderName(path)
ObjectsSelectAllPolicy(uid, path) == uid # Anon
ObjectsUpdatePolicy(uid, path) == uid # Anon /\ uid = FolderName(path)
ObjectsDeletePolicyAnyone(uid, path) == uid # Anon
ObjectsDeletePolicy(uid, path) == uid # Anon /\ uid = FolderName(path)
\* Permissive policies of one command are OR-ed.
ObjectsSelectPolicy(uid, path) ==
    ObjectsSelectOwnPolicy(uid, path) \/ ObjectsSelectAllPolicy(uid, path)

\* The objects after a write of size bytes at path: the object at path, if any,
\* is replaced.
Written(objs, path, size) == {b \in objs : b[1] # path} \cup {<<path, size>>}
Removed(objs, path) == {b \in objs : b[1] # path}

\* {upsert: false}: whether an upload to path is refused because it exists.
UploadConflictUpsert(path, paths) == FALSE
UploadConflict(path, paths) == path \in paths

\* The content the direct uploads write.
BodySizes == {1, 2}

\* storage.from('attachments').upload(path, file, {upsert: false})
StorageUpload(actor, path, size) ==
    LET err == IF ~ ObjectsInsertPolicy(actor, path) THEN "403"
               ELSE IF UploadConflict(path, objects) THEN "409" ELSE ""
    IN  /\ objects' = IF err = "" THEN objects \cup {path} ELSE objects
        /\ bodies' = IF err = "" THEN Written(bodies, path, size) ELSE bodies
        /\ last' = [LastObject("upload", actor, path, err, IF err = "" THEN 1 ELSE 0)
                    EXCEPT !.size = size]
        /\ UNCHANGED <<db, nextId, profiles, accounts, clock, loading, submission,
                       isEditing, uploadedFile, isOverdue, error, notesPage,
                       assignmentRows, categories, auth, assignmentsPage, calls>>

\* storage.from('attachments').download(path): the authenticated endpoint.
StorageDownload(actor, path) ==
    LET ok == path \in objects /\ ObjectsSelectPolicy(actor, path)
    IN  /\ last' = LastObject("download", actor, path, IF ok THEN "" ELSE "404",
                              IF ok THEN 1 ELSE 0)
        /\ UNCHANGED <<db, nextId, profiles, accounts, objects, clock, loading,
                       submission, isEditing, uploadedFile, isOverdue, error,
                       notesPage, assignmentRows, categories, bodies, auth,
                       assignmentsPage, calls>>

\* GET of the url getPublicUrl(path) builds, the one the pages store in
\* file_url and render as a link: a public bucket serves it to anyone.
PublicUrlGet(actor, path) ==
    LET ok == path \in objects /\ BucketPublic
    IN  /\ last' = LastObject("publicUrl", actor, path, IF ok THEN "" ELSE "404",
                              IF ok THEN 1 ELSE 0)
        /\ UNCHANGED <<db, nextId, profiles, accounts, objects, clock, loading,
                       submission, isEditing, uploadedFile, isOverdue, error,
                       notesPage, assignmentRows, categories, bodies, auth,
                       assignmentsPage, calls>>

\* storage.from('attachments').remove([path]): objects the policies hide are
\* skipped without an error.
StorageRemove(actor, path) ==
    LET ok == /\ path \in objects
              /\ ObjectsSelectPolicy(actor, path)
              /\ ObjectsDeletePolicy(actor, path)
    IN  /\ objects' = IF ok THEN objects \ {path} ELSE objects
        /\ bodies' = IF ok THEN Removed(bodies, path) ELSE bodies
        /\ last' = LastObject("remove", actor, path, "", IF ok THEN 1 ELSE 0)
        /\ UNCHANGED <<db, nextId, profiles, accounts, clock, loading, submission,
                       isEditing, uploadedFile, isOverdue, error, notesPage,
                       assignmentRows, categories, auth, assignmentsPage, calls>>

\* storage.from('attachments').update(path, file): replaces the content of an
\* object the policies let the request see and update.
StorageUpdate(actor, path, size) ==
    LET ok == /\ path \in objects
              /\ ObjectsSelectPolicy(actor, path)
              /\ ObjectsUpdatePolicy(actor, path)
    IN  /\ bodies' = IF ok THEN Written(bodies, path, size) ELSE bodies
        /\ last' = [LastObject("update", actor, path, IF ok THEN "" ELSE "404",
                               IF ok THEN 1 ELSE 0)
                    EXCEPT !.size = size]
        /\ UNCHANGED <<db, nextId, profiles, accounts, objects, clock, loading,
                       submission, isEditing, uploadedFile, isOverdue, error, notesPage,
                       assignmentRows, categories, auth, assignmentsPage, calls>>

\* The name of the file the user picks, and a path for every object the runs
\* name: `${user?.id}/${Date.now()}.${fileExt}`.
FileNames == {<<"a", "pdf">>}
\* file.name.split('.').pop()
FileExt(name) == name[Len(name)]
FilePath(u, now, name) == <<u, now, FileExt(name)>>
Paths == {FilePath(u, clock, name) : u \in Users, name \in FileNames}

\* ------------------------------------------------------------- attachments of the form
\* const maxSize = 50 * 1024 * 1024
maxSize == 50 * 1024 * 1024
\* The byte sizes of the files the user picks.
FileSizes == {1, maxSize, maxSize + 1}

\* if (file.size > maxSize)
FileTooLargeAtLimit(size) == size >= maxSize
FileTooLarge(size) == size > maxSize

\* uploadedFile after handleFileUpload: setUploadedFile runs only past the
\* throw of an upload error.
DescriptorAfterUploadAlways(cur, new, err) == new
DescriptorAfterUpload(cur, new, err) == IF err = "" THEN new ELSE cur

\* if (!uploadedFile) return; of handleFileRemove: whether the handler goes on.
HasFileAlways(cur) == TRUE
HasFile(cur) == cur # NoDescriptor

\* The file input of the form, shown while the form holds no attachment and
\* enabled while no upload is in flight: the user picks a file of size bytes.
\* The handler returns at the size check, or sets uploading and awaits the
\* upload to the path it builds from the account and the instant.
handleFileUploadStart(s, size, name) ==
    LET u == SessUser(s)
        path == FilePath(u, clock, name)
    IN  /\ View(s) = "form"
        /\ uploadedFile[s] = NoDescriptor
        /\ ~ uploading(s)
        /\ IF FileTooLarge(size)
           \* the size check returns before any state is set: no render
           THEN /\ UNCHANGED <<calls, isOverdue>>
                /\ last' = [Stage(Last("handleFileUpload", u, s, "storage.objects",
                                       0, "size", 0, "error"), "start")
                            EXCEPT !.size = size]
           ELSE /\ Cardinality(calls) < MaxCalls
                /\ calls' = Put(calls, [Call(s, u, "handleFileUpload") EXCEPT
                                           !.file = Descriptor(path, name),
                                           !.size = size])
                /\ Render(s)
                /\ last' = [Stage(Last("handleFileUpload", u, s, "storage.objects",
                                       0, "", 0, ""), "start")
                            EXCEPT !.path = path, !.size = size]
        /\ UNCHANGED <<db, nextId, profiles, accounts, objects, clock, loading,
                       submission, isEditing, uploadedFile, error, notesPage,
                       assignmentRows, categories, bodies, auth, assignmentsPage>>

\* The object store answers upload(fileName, file, {upsert: false}).  fails:
\* the store cannot be reached or answers an error of its own.
handleFileUploadRequest(c, fails) ==
    LET path == c.file.url
        err == IF fails THEN "500"
               ELSE IF ~ ObjectsInsertPolicy(c.actor, path) THEN "403"
               ELSE IF UploadConflict(path, objects) THEN "409"
               ELSE ""
    IN  /\ c.op = "handleFileUpload"
        /\ c.step = 0
        /\ objects' = IF err = "" THEN objects \cup {path} ELSE objects
        /\ bodies' = IF err = "" THEN Written(bodies, path, c.size) ELSE bodies
        /\ calls' = Answered(c, [c EXCEPT !.step = 1, !.error = err,
                                          !.count = IF err = "" THEN 1 ELSE 0])
        /\ last' = [Stage(Last("handleFileUpload", c.actor, c.sess,
                               "storage.objects", 0, err,
                               IF err = "" THEN 1 ELSE 0, ""), "request")
                    EXCEPT !.path = path, !.size = c.size]
        /\ UNCHANGED <<db, nextId, profiles, accounts, clock, loading, submission,
                       isEditing, uploadedFile, isOverdue, error, notesPage,
                       assignmentRows, categories, auth, assignmentsPage>>

\* handleFileUpload from the answer: setUploadedFile with the public url and
\* the name of the file and toast.success, or toast.error; finally
\* setUploading(false).  In a component that is gone only the toast is left.
handleFileUpload(c) ==
    LET s == c.sess
    IN  /\ c.op = "handleFileUpload"
        /\ c.step = 1
        /\ calls' = Take(calls, c)
        /\ IF c.orphan
           THEN UNCHANGED <<uploadedFile, isOverdue>>
           ELSE /\ uploadedFile' = [uploadedFile EXCEPT
                                      ![s] = DescriptorAfterUpload(@, c.file, c.error)]
                /\ Render(s)
        /\ last' = [Stage(Last("handleFileUpload", c.actor, s, "storage.objects", 0,
                               c.error, c.count,
                               IF c.error = "" THEN "success" ELSE "error"),
                          "answer")
                    EXCEPT !.path = c.file.url, !.size = c.size]
        /\ UNCHANGED <<db, nextId, profiles, accounts, objects, clock, loading,
                       submission, isEditing, error, notesPage, assignmentRows,
                       categories, bodies, auth, assignmentsPage>>

\* The remove button of the form's attachment, and the handler called while
\* the form holds no attachment: it returns, or awaits the removal of the
\* object at the last two segments of the attachment's url.
handleFileRemoveStart(s) ==
    LET u == SessUser(s)
        cur == uploadedFile[s]
    IN  /\ View(s) = "form"
        /\ IF ~ HasFile(cur)
           THEN /\ UNCHANGED calls
                /\ last' = Stage(Last("handleFileRemove", u, s, "", 0, "", 0, ""),
                                 "start")
           ELSE IF cur = NoDescriptor
           \* uploadedFile.url of null throws into the catch
           THEN /\ UNCHANGED calls
                /\ last' = Stage(Last("handleFileRemove", u, s, "", 0, "TypeError",
                                      0, "error"), "start")
           ELSE /\ Cardinality(calls) < MaxCalls
                /\ calls' = Put(calls, [Call(s, u, "handleFileRemove") EXCEPT
                                           !.file = cur])
                /\ last' = [Stage(Last("handleFileRemove", u, s, "storage.objects",
                                       0, "", 0, ""), "start")
                            EXCEPT !.path = cur.url]
        /\ UNCHANGED <<db, nextId, profiles, accounts, objects, clock, loading,
                       submission, isEditing, uploadedFile, isOverdue, error,
                       notesPage, assignmentRows, categories, bodies, auth,
                       assignmentsPage>>

\* The object store answers remove([filePath]): an object the policies hide
\* is skipped without an error.
handleFileRemoveRequest(c, fails) ==
    LET path == c.file.url
        hit == /\ path \in objects
               /\ ObjectsSelectPolicy(c.actor, path)
               /\ ObjectsDeletePolicy(c.actor, path)
        err == IF fails THEN "500" ELSE ""
        gone == err = "" /\ hit
    IN  /\ c.op = "handleFileRemove"
        /\ c.step = 0
        /\ objects' = IF gone THEN objects \ {path} ELSE objects
        /\ bodies' = IF gone THEN Removed(bodies, path) ELSE bodies
        /\ calls' = Answered(c, [c EXCEPT !.step = 1, !.error = err,
                                          !.count = IF gone THEN 1 ELSE 0])
        /\ last' = [Stage(Last("handleFileRemove", c.actor, c.sess,
                               "storage.objects", 0, err, IF gone THEN 1 ELSE 0, ""),
                          "request")
                    EXCEPT !.path = path]
        /\ UNCHANGED <<db, nextId, profiles, accounts, clock, loading, submission,
                       isEditing, uploadedFile, isOverdue, error, notesPage,
                       assignmentRows, categories, auth, assignmentsPage>>

\* handleFileRemove from the answer: setUploadedFile(null) and toast.success,
\* or toast.error.  The component renders if its state has changed: not when
\* uploadedFile was null already, and not when the component is gone.
handleFileRemove(c) ==
    LET s == c.sess
        set == ~ c.orphan /\ c.error = ""
    IN  /\ c.op = "handleFileRemove"
        /\ c.step = 1
        /\ calls' = Take(calls, c)
        /\ uploadedFile' = [uploadedFile EXCEPT
                              ![s] = IF set THEN NoDescriptor ELSE @]
        /\ IF set /\ uploadedFile[s] # NoDescriptor
           THEN Render(s) ELSE UNCHANGED isOverdue
        /\ last' = [Stage(Last("handleFileRemove", c.actor, s, "storage.objects", 0,
                               c.error, c.count,
                               IF c.error = "" THEN "success" ELSE "error"),
                          "answer")
                    EXCEPT !.path = c.file.url]
        /\ UNCHANGED <<db, nextId, profiles, accounts, objects, clock, loading,
                       submission, isEditing, error, notesPage, assignmentRows,
                       categories, bodies, auth, assignmentsPage>>

FileStep ==
    \/ \E s \in OneTab :
          \/ \E size \in FileSizes, name \in FileNames :
                handleFileUploadStart(s, size, name)
          \/ handleFileRemoveStart(s)
    \/ \E c \in calls :
          \/ \E fails \in BOOLEAN : handleFileUploadRequest(c, fails)
          \/ handleFileUpload(c)
          \/ \E fails \in BOOLEAN : handleFileRemoveRequest(c, fails)
          \/ handleFileRemove(c)

\* One tab of the page with the attachments of its form, at one instant.
NextFiles == OneTabStep \/ FileStep

SpecFiles == Init /\ [][NextFiles]_vars

\* ------------------------------------------------------------- the File URL field
\* The earlier revision of AssignmentDetail, kept in the same file: its form
\* has a free-text field "File URL" in place of the file input, and its state
\* is that of the later revision without uploadedFile; its requests write
\* file_url and leave file_name alone.  Its other handlers act on that state
\* as the later ones do.
\* What the user types into the field: the url of an object in the folder of
\* the account, or a url elsewhere.
Urls == {<<"u1", 0, "pdf">>, <<"example.com", 0, "pdf">>}

\* Save as Draft of the earlier revision up to its await, with the content and
\* the File URL of the form.
onSubmitFileUrlStart(s, content, url) ==
    LET u == SessUser(s)
    IN  /\ View(s) = "form"
        /\ ~ submitting(s)
        /\ Cardinality(calls) < MaxCalls
        /\ calls' = Put(calls, [Call(s, u, "onSubmitFileUrl") EXCEPT
                                   !.row = submission[s],
                                   !.id = submission[s].id,
                                   !.content = content,
                                   !.file = Descriptor(url, NoName)])
        /\ Render(s)
        /\ last' = Stage(Last("onSubmit", u, s, "submissions", submission[s].id,
                              "", 0, ""), "start")
        /\ UNCHANGED <<db, nextId, profiles, accounts, objects, clock, loading,
                       submission, isEditing, uploadedFile, error, notesPage,
                       assignmentRows, categories, bodies, auth, assignmentsPage>>

\* The store answers the request of the earlier revision:
\* file_url: data.file_url || null.
onSubmitFileUrlRequest(c) ==
    LET u == c.actor
        upd == StoreUpdate(db, u, "submissions", {c.row.id},
                           [content |-> c.content, file_url |-> c.file.url])
        new == Row("submissions", nextId, u, SessAssignment(c.sess), c.content,
                   c.file.url, "draft")
        ins == StoreInsert(db, profiles, u, new)
    IN  /\ c.op = "onSubmitFileUrl"
        /\ c.step = 0
        /\ IF c.row # NoRow
           THEN /\ db' = upd.db
                /\ UNCHANGED nextId
                /\ calls' = Answered(c, [c EXCEPT !.step = 1, !.error = upd.error,
                                                  !.count = upd.count])
                /\ last' = Stage(Last("onSubmit", u, c.sess, "submissions", c.id,
                                      upd.error, upd.count, ""), "request")
           ELSE /\ ins.error = "" => CanDraft
                /\ db' = ins.db
                /\ nextId' = IF ins.error = "" THEN nextId + 1 ELSE nextId
                /\ calls' = Answered(c, [c EXCEPT
                                           !.step = 1, !.error = ins.error,
                                           !.count = IF ins.error = "" THEN 1 ELSE 0,
                                           !.data = ins.row, !.id = ins.row.id])
                /\ last' = Stage(Last("onSubmit", u, c.sess, "submissions",
                                      ins.row.id, ins.error,
                                      IF ins.error = "" THEN 1 ELSE 0, ""), "request")
        /\ UNCHANGED <<profiles, accounts, objects, clock, loading, submission,
                       isEditing, uploadedFile, isOverdue, error, notesPage,
                       assignmentRows, categories, bodies, auth, assignmentsPage>>

FileUrlStep ==
    \/ \E s \in OneTab :
          \/ DetailStep(s)
          \/ \E url \in Urls \cup {NoFile} : onSubmitFileUrlStart(s, FormContent, url)
    \/ \E c \in calls : onSubmitFileUrlRequest(c)

NextFileUrl == FileUrlStep \/ Tick

SpecFileUrl == Init /\ [][NextFileUrl]_vars

\* ------------------------------------------------------------- access control
\* The parents a new row of table t may name.
Parents(t) ==
    IF t = "submissions" THEN Assignments
    ELSE IF t = "comments" THEN RowIds(db, "announcements") \cup {NoParent}
    ELSE {NoParent}

\* The columns a direct update may set.
Patches(t) ==
    {[content |-> c] : c \in Contents}
    \cup {[user_id |-> u] : u \in Users}
    \cup (IF t = "submissions" THEN {[status |-> "draft"], [status |-> "submitted"]}
          ELSE IF t = "feedback" THEN {[status |-> "reviewed"]}
          ELSE {})

DirectInsert(actor) ==
    \E t \in OwnedTables, owner \in Users : \E parent \in Parents(t) :
        RawInsert(actor, t, owner, parent, "x")
DirectUpdate(actor) ==
    \E r \in db : \E p \in Patches(r.table) : RawUpdate(actor, r.table, r.id, p)
DirectDelete(actor) == \E r \in db : RawDelete(actor, r.table, r.id)
DirectSelect(actor) == \E r \in db : RawSelect(actor, r.table, r.id)

ObjectStep(actor) ==
    \E path \in Paths :
        \/ \E size \in BodySizes : StorageUpload(actor, path, size)
        \/ StorageDownload(actor, path)
        \/ PublicUrlGet(actor, path)
        \/ StorageRemove(actor, path)
        \/ \E size \in BodySizes : StorageUpdate(actor, path, size)

\* Access control is decided row by row: the store of these runs holds one row
\* of any owned table at a time, and with a comment its announcement.
OneRowStore == \A r \in db : r.table = "announcements" /\ RowIds(db, "comments") = {}

\* The requests of the accounts that exist, each with its own session.
AccountStep ==
    \E actor \in accounts :
        \/ OneRowStore /\ DirectInsert(actor)
        \/ DirectUpdate(actor)
        \/ DirectDelete(actor)
        \/ DirectSelect(actor)
        \/ \E id \in profiles : RawSelectProfile(actor, id)

StaffStep ==
    \E r \in db : \E st \in {"reviewed", "resolved"} : ReviewFeedback(r.id, st)

NextAcl == AccountStep \/ StaffStep

SpecAcl == Init /\ [][NextAcl]_vars

\* ------------------------------------------------------------- AuthProvider and Layout
\* What Layout returns for the loading and user of the auth context.
LayoutNoLoading(isLoading, user) ==
    IF user = NoUser THEN "Navigate" ELSE "Outlet"
Layout(isLoading, user) ==
    IF isLoading THEN "spinner"
    ELSE IF user = NoUser THEN "Navigate"
    ELSE "Outlet"

\* The routes outside Layout, and the routes the runs visit.
PublicRoutes == {"/login", "/register", "/forgot-password"}
Locations == PublicRoutes \cup {"/dashboard"}

\* What the router shows: a public page at its route, Layout on the protected
\* routes.
Screen ==
    CASE auth.location = "/login" -> "Login"
      [] auth.location = "/register" -> "Register"
      [] auth.location = "/forgot-password" -> "ForgotPassword"
      [] OTHER -> Layout(auth.loading, auth.user)

\* A step of the auth context and what it reported (toast).
LastAuth(op, u, err, outcome) == Last(op, u, "", "", 0, err, 0, outcome)

AuthUnchanged ==
    UNCHANGED <<db, nextId, assignmentRows, categories, objects, bodies, clock,
                loading, submission, isEditing, uploadedFile, isOverdue, error,
                notesPage, assignmentsPage>>

\* auth.uid() of a request the client sends: that of the session the browser
\* holds.
SessionUid == IF auth.token = NoUser THEN Anon ELSE auth.token

\* setData of the effect: getSession() resolves with the browser's session, or
\* with an error.
setData(fails) ==
    /\ auth.getSession
    /\ auth' = IF fails
               THEN [auth EXCEPT !.getSession = FALSE, !.loading = FALSE]
               ELSE [auth EXCEPT !.getSession = FALSE, !.user = auth.token,
                                 !.loading = FALSE]
    /\ last' = LastAuth("setData", auth.token, IF fails THEN "error" ELSE "", "")
    /\ AuthUnchanged
    /\ UNCHANGED <<profiles, accounts, calls>>

\* The callback of onAuthStateChange outside the handlers of this tab: the
\* initial session and token refreshes (sessionUser is the browser's session)
\* and sign-in or sign-out in another tab of the browser.
onAuthStateChange(sessionUser) ==
    /\ sessionUser \in accounts \cup {NoUser}
    /\ auth' = [auth EXCEPT !.token = sessionUser, !.user = sessionUser,
                            !.loading = FALSE]
    /\ last' = LastAuth("onAuthStateChange", sessionUser, "", "")
    /\ AuthUnchanged
    /\ UNCHANGED <<profiles, accounts, calls>>

\* signUp of the Register page for account u, up to its await:
\* setLoading(true).
signUpStart(u) ==
    /\ Screen = "Register"
    /\ Cardinality(calls) < MaxCalls
    /\ calls' = Put(calls, Call("", u, "signUp"))
    /\ auth' = [auth EXCEPT !.loading = TRUE]
    /\ last' = Stage([LastAuth("signUp", u, "", "") EXCEPT !.path = <<u>>], "start")
    /\ AuthUnchanged
    /\ UNCHANGED <<profiles, accounts>>

\* The answers to the two requests of signUp.  supabase.auth.signUp creates
\* the account, or is an error for an e-mail that has one; confirm: the server
\* asks for the e-mail to be confirmed, otherwise it signs the account in at
\* once and the callback of onAuthStateChange runs before the handler goes on.
\* The handler then inserts the profile row with the session the browser holds
\* and does not look at the answer.
signUpRequest(c, confirm) ==
    LET u == c.actor
        authError == IF u \in accounts THEN "user_already_exists" ELSE ""
        inserted == ProfilesInsertPolicy(SessionUid, u) /\ u \notin profiles
    IN  /\ c.op = "signUp"
        /\ c.step < 2
        /\ IF c.step = 0
           THEN /\ accounts' = IF authError = "" THEN accounts \cup {u} ELSE accounts
                /\ UNCHANGED profiles
                /\ auth' = IF authError = "" /\ ~ confirm
                           THEN [auth EXCEPT !.token = u, !.user = u,
                                             !.loading = FALSE]
                           ELSE auth
                /\ calls' = Answered(c, IF authError = ""
                                        THEN [c EXCEPT !.step = 1]
                                        ELSE [c EXCEPT !.step = 2,
                                                       !.error = authError])
                /\ last' = Stage([Last("signUp", u, "", "auth.users", 0, authError,
                                       IF authError = "" THEN 1 ELSE 0, "")
                                  EXCEPT !.path = <<u>>], "request")
           ELSE /\ profiles' = IF inserted THEN profiles \cup {u} ELSE profiles
                /\ UNCHANGED <<accounts, auth>>
                /\ calls' = Answered(c, [c EXCEPT
                                           !.step = 2,
                                           !.count = IF inserted THEN 1 ELSE 0])
                /\ last' = Stage([Last("signUp", u, "", "profiles", 0,
                                       IF inserted THEN "" ELSE "42501",
                                       IF inserted THEN 1 ELSE 0, "")
                                  EXCEPT !.path = <<u>>], "request")
        /\ AuthUnchanged

\* signUp from its answers: toast.success and navigate('/login'), or
\* toast.error; finally setLoading(false).
signUp(c) ==
    /\ c.op = "signUp"
    /\ c.step = 2
    /\ calls' = Take(calls, c)
    /\ auth' = IF c.error = ""
               THEN [auth EXCEPT !.location = "/login", !.loading = FALSE]
               ELSE [auth EXCEPT !.loading = FALSE]
    /\ last' = Stage([Last("signUp", c.actor, "", "profiles", 0, c.error, c.count,
                           IF c.error = "" THEN "success" ELSE "error")
                      EXCEPT !.path = <<c.actor>>], "answer")
    /\ AuthUnchanged
    /\ UNCHANGED <<profiles, accounts>>

\* signIn of the Login page with the e-mail of account u, up to its await:
\* setLoading(true).
signInStart(u) ==
    /\ Screen = "Login"
    /\ Cardinality(calls) < MaxCalls
    /\ calls' = Put(calls, Call("", u, "signIn"))
    /\ auth' = [auth EXCEPT !.loading = TRUE]
    /\ last' = Stage(LastAuth("signIn", u, "", ""), "start")
    /\ AuthUnchanged
    /\ UNCHANGED <<profiles, accounts>>

\* signIn from the answer of signInWithPassword (fails: the password is not
\* the account's): on success the client stores the session and calls the
\* onAuthStateChange callback before the promise resolves, then toast.success
\* and navigate('/dashboard'); or toast.error; finally setLoading(false).
signIn(c, fails) ==
    LET err == IF fails \/ c.actor \notin accounts THEN "invalid_credentials" ELSE ""
    IN  /\ c.op = "signIn"
        /\ calls' = Take(calls, c)
        /\ auth' = IF err # ""
                   THEN [auth EXCEPT !.loading = FALSE]
                   ELSE [auth EXCEPT !.token = c.actor, !.user = c.actor,
                                     !.location = "/dashboard", !.loading = FALSE]
        /\ last' = Stage(LastAuth("signIn", c.actor, err,
                                  IF err = "" THEN "success" ELSE "error"), "answer")
        /\ AuthUnchanged
        /\ UNCHANGED <<profiles, accounts>>

\* signOut up to its await, from the button of Layout: setLoading(true).
signOutStart ==
    /\ Screen = "Outlet"
    /\ Cardinality(calls) < MaxCalls
    /\ calls' = Put(calls, Call("", auth.user, "signOut"))
    /\ auth' = [auth EXCEPT !.loading = TRUE]
    /\ last' = Stage(LastAuth("signOut", auth.user, "", ""), "start")
    /\ AuthUnchanged
    /\ UNCHANGED <<profiles, accounts>>

\* signOut from the answer of supabase.auth.signOut(): on success the session
\* is dropped and the callback runs, then toast.success and
\* navigate('/login'); or toast.error; finally setLoading(false).
signOut(c, fails) ==
    /\ c.op = "signOut"
    /\ calls' = Take(calls, c)
    /\ auth' = IF fails
               THEN [auth EXCEPT !.loading = FALSE]
               ELSE [auth EXCEPT !.token = NoUser, !.user = NoUser,
                                 !.location = "/login", !.loading = FALSE]
    /\ last' = Stage(LastAuth("signOut", c.actor, IF fails THEN "error" ELSE "",
                              IF fails THEN "error" ELSE "success"), "answer")
    /\ AuthUnchanged
    /\ UNCHANGED <<profiles, accounts>>

\* resetPassword of the ForgotPassword page with the e-mail of account u, up
\* to its await: setLoading(true).
resetPasswordStart(u) ==
    /\ Screen = "ForgotPassword"
    /\ Cardinality(calls) < MaxCalls
    /\ calls' = Put(calls, Call("", u, "resetPassword"))
    /\ auth' = [auth EXCEPT !.loading = TRUE]
    /\ last' = Stage(LastAuth("resetPassword", u, "", ""), "start")
    /\ AuthUnchanged
    /\ UNCHANGED <<profiles, accounts>>

\* resetPassword from the answer of resetPasswordForEmail: toast.success or
\* toast.error; finally setLoading(false).
resetPassword(c, fails) ==
    /\ c.op = "resetPassword"
    /\ calls' = Take(calls, c)
    /\ auth' = [auth EXCEPT !.loading = FALSE]
    /\ last' = Stage(LastAuth("resetPassword", c.actor,
                              IF fails THEN "error" ELSE "",
                              IF fails THEN "error" ELSE "success"), "answer")
    /\ AuthUnchanged
    /\ UNCHANGED <<profiles, accounts>>

\* <Navigate to="/login" replace /> rendered by Layout takes effect.
Redirect ==
    /\ Screen = "Navigate"
    /\ auth' = [auth EXCEPT !.location = "/login"]
    /\ last' = LastAuth("redirect", auth.user, "", "")
    /\ AuthUnchanged
    /\ UNCHANGED <<profiles, accounts, calls>>

\* The user follows a link or moves through the browser's history to another
\* route of the app.
Visit(location) ==
    /\ auth.location # location
    /\ auth' = [auth EXCEPT !.location = location]
    /\ last' = LastAuth("visit", auth.user, "", "")
    /\ AuthUnchanged
    /\ UNCHANGED <<profiles, accounts, calls>>

\* The handlers of the auth context and the answers they await.
SignUpStep ==
    \/ \E u \in Users : signUpStart(u)
    \/ \E c \in calls, confirm \in BOOLEAN : signUpRequest(c, confirm)
    \/ \E c \in calls : signUp(c)

\* One account and its profile exist before the run, made outside the client;
\* the other account signs up through the client.  The app starts on a
\* protected route in a browser that holds the session of an account or none.
InitAuth ==
    /\ db = {}
    /\ nextId = 1
    /\ profiles = {"u2"}
    /\ accounts = {"u2"}
    /\ assignmentRows = Assignments
    /\ categories = Categories
    /\ objects = {}
    /\ bodies = {}
    /\ \E token \in {"u2", NoUser} : auth = AuthState(token)
    /\ InitClient

NextAuth ==
    \/ \E fails \in BOOLEAN : setData(fails)
    \/ \E sessionUser \in Users \cup {NoUser} : onAuthStateChange(sessionUser)
    \/ SignUpStep
    \/ \E u \in Users : signInStart(u)
    \/ \E c \in calls, fails \in BOOLEAN : signIn(c, fails)
    \/ signOutStart
    \/ \E c \in calls, fails \in BOOLEAN : signOut(c, fails)
    \/ \E u \in Users : resetPasswordStart(u)
    \/ \E c \in calls, fails \in BOOLEAN : resetPassword(c, fails)
    \/ Redirect
    \/ \E location \in Locations : Visit(location)

SpecAuth == InitAuth /\ [][NextAuth]_vars

\* ------------------------------------------------------------- sign-up
\* The Register page is open in a browser that holds no session.
InitSignUp ==
    /\ db = {}
    /\ nextId = 1
    /\ profiles = {"u2"}
    /\ accounts = {"u2"}
    /\ assignmentRows = Assignments
    /\ categories = Categories
    /\ objects = {}
    /\ bodies = {}
    /\ auth = [AuthState(NoUser) EXCEPT !.location = "/register"]
    /\ InitClient

\* The accounts that exist insert rows, delete them and read the profiles.
NewRowStep ==
    \E actor \in accounts :
        \/ OneRowStore /\ DirectInsert(actor)
        \/ DirectDelete(actor)
        \/ \E id \in profiles : RawSelectProfile(actor, id)

\* The sign-up of either account, while the accounts that exist send their
\* own requests.
NextSignUp ==
    \/ \E fails \in BOOLEAN : setData(fails)
    \/ SignUpStep
    \/ NewRowStep

SpecSignUp == InitSignUp /\ [][NextSignUp]_vars

\* ------------------------------------------------------------- no session
\* Rows and an object that exist before the run: one row of every owned table.
SeedPath == <<"u1", 0, "pdf">>
SeedRows ==
    {Row("notes", 101, "u1", NoParent, "x", NoFile, ""),
     Row("announcements", 102, "u1", NoParent, "x", NoFile, ""),
     Row("comments", 103, "u2", 102, "x", NoFile, ""),
     Row("feedback", 104, "u2", NoParent, "x", NoFile, "pending"),
     [Row("submissions", 105, "u1", 1, "x", SeedPath, "draft")
        EXCEPT !.file_name = <<"a", "pdf">>]}

InitAnon ==
    /\ db = SeedRows
    /\ nextId = 1
    /\ profiles = Users
    /\ accounts = Users
    /\ assignmentRows = Assignments
    /\ categories = Categories
    /\ objects = {SeedPath}
    /\ bodies = {<<SeedPath, 1>>}
    /\ auth = AuthState(NoUser)
    /\ InitClient

\* Requests that carry no session, against every table and the bucket, while
\* the accounts send requests of their own to the bucket.
NextAnon ==
    \/ DirectInsert(Anon)
    \/ DirectUpdate(Anon)
    \/ DirectDelete(Anon)
    \/ DirectSelect(Anon)
    \/ \E id \in profiles : RawSelectProfile(Anon, id)
    \/ ObjectStep(Anon)
    \/ \E u \in Users : ObjectStep(u)

SpecAnon == InitAnon /\ [][NextAnon]_vars

\* ------------------------------------------------------------- referential actions
\* The rows that reference profile u: ON DELETE CASCADE of user_id.
OwnedBy(rows, u) == {r \in rows : r.user_id = u}

\* ON DELETE SET NULL of category_id, for category c.
KeepCategory(row, c) == row
SetNull(row, c) ==
    IF row.table \in {"notes", "announcements"} /\ row.parent = c
    THEN [row EXCEPT !.parent = NoParent] ELSE row

\* An administrator deletes the account u (DELETE FROM auth.users): the
\* profile goes with it, with the profile the rows it owns, and with an
\* announcement its comments.  count is the number of owned rows removed.
DeleteAccount(u) ==
    LET owned == OwnedBy(db, u)
        gone == owned \cup Cascaded(db, owned)
    IN  /\ u \in accounts
        /\ accounts' = accounts \ {u}
        /\ profiles' = profiles \ {u}
        /\ db' = db \ gone
        /\ last' = [Last("deleteAccount", "service_role", "", "auth.users", 0, "",
                         Cardinality(gone), "")
                    EXCEPT !.path = <<u>>]
        /\ UNCHANGED <<nextId, assignmentRows, categories, objects, bodies, clock,
                       loading, submission, isEditing, uploadedFile, isOverdue, error,
                       notesPage, auth, assignmentsPage, calls>>

\* An administrator deletes the assignment a: its submissions go with it.
DeleteAssignment(a) ==
    LET gone == {r \in db : r.table = "submissions" /\ r.parent = a}
    IN  /\ a \in assignmentRows
        /\ assignmentRows' = assignmentRows \ {a}
        /\ db' = db \ gone
        /\ last' = Last("deleteAssignment", "service_role", "", "assignments", a, "",
                        Cardinality(gone), "")
        /\ UNCHANGED <<nextId, profiles, accounts, categories, objects, bodies, clock,
                       loading, submission, isEditing, uploadedFile, isOverdue, error,
                       notesPage, auth, assignmentsPage, calls>>

\* An administrator deletes the category c: the notes and announcements that
\* name it stay, with category_id null.  count is the number of those rows.
DeleteCategory(c) ==
    LET named == {r \in db : SetNull(r, c) # r}
    IN  /\ c \in categories
        /\ categories' = categories \ {c}
        /\ db' = {SetNull(r, c) : r \in db}
        /\ last' = Last("deleteCategory", "service_role", "", "categories", c, "",
                        Cardinality(named), "")
        /\ UNCHANGED <<nextId, profiles, accounts, assignmentRows, objects, bodies,
                       clock, loading, submission, isEditing, uploadedFile, isOverdue,
                       error, notesPage, auth, assignmentsPage, calls>>

\* The parents a request may name in these runs: ids that exist, ids that do
\* not, and null.  A request on feedback that names one names a column the
\* table does not have.
RefParents(t) ==
    IF t = "submissions" THEN Assignments
    ELSE IF t = "comments" THEN (1 .. MaxIds) \cup {NoParent}
    ELSE Categories \cup {NoParent}

\* The accounts insert rows of their own, re-parent them and delete them.
RefStep ==
    \E actor \in accounts :
        \/ /\ OneRowStore
           /\ \E t \in OwnedTables : \E parent \in RefParents(t) :
                 RawInsert(actor, t, actor, parent, "x")
        \/ \E r \in db : \E parent \in RefParents(r.table) :
              RawUpdate(actor, r.table, r.id, [parent |-> parent])
        \/ DirectDelete(actor)

AdminStep ==
    \/ \E u \in Users : DeleteAccount(u)
    \/ \E a \in Assignments : DeleteAssignment(a)
    \/ \E c \in Categories : DeleteCategory(c)

NextRefs == RefStep \/ AdminStep

SpecRefs == Init /\ [][NextRefs]_vars

\* ------------------------------------------------------------- Assignments list
\* Whether account u has the Assignments page open.
AssignmentsMounted(u) ==
    \/ ~ assignmentsPage[u].loading
    \/ \E c \in calls : c.actor = u /\ ~ c.orphan /\ c.op = "fetchAssignments"

\* The Assignments page is opened: the component mounts with the initial
\* values of its state and its effect starts (setLoading(true)).
AssignmentsMount(u, load) ==
    /\ assignmentsPage' = [assignmentsPage EXCEPT ![u] = AssignmentsState]
    /\ calls' = Remounted({c \in calls : c.actor = u /\ c.op = "fetchAssignments"},
                          load, Call("", u, "fetchAssignments"))
    /\ Cardinality(calls') <= MaxCalls
    /\ last' = Stage(Last("fetchAssignments", u, "", "assignments", 0, "", 0, ""),
                     "mount")
    /\ UNCHANGED <<db, nextId, profiles, accounts, assignmentRows, categories,
                   objects, bodies, clock, loading, submission, isEditing,
                   uploadedFile, isOverdue, error, notesPage, auth>>

\* The effect runs again in the mounted page: setLoading(true).
fetchAssignmentsStart(u) ==
    /\ AssignmentsMounted(u)
    /\ Cardinality({c \in calls : /\ c.actor = u
                                    /\ ~ c.orphan
                                    /\ c.op = "fetchAssignments"}) < MaxRuns
    /\ assignmentsPage' = [assignmentsPage EXCEPT ![u].loading = TRUE]
    /\ Cardinality(calls) < MaxCalls
    /\ calls' = Put(calls, Call("", u, "fetchAssignments"))
    /\ last' = Stage(Last("fetchAssignments", u, "", "assignments", 0, "", 0, ""),
                     "start")
    /\ UNCHANGED <<db, nextId, profiles, accounts, assignmentRows, categories,
                   objects, bodies, clock, loading, submission, isEditing,
                   uploadedFile, isOverdue, error, notesPage, auth>>

\* The two selects of the effect: every assignment, then the account's
\* submissions.  fails: the store cannot be reached.
fetchAssignmentsRequest(c, fails) ==
    LET u == c.actor
        found == IF AssignmentsSelectPolicy(u) THEN assignmentRows ELSE {}
        subs == {r \in db : /\ r.table = "submissions"
                            /\ r.user_id = u
                            /\ Policy("select", u, r)}
        new == IF fails THEN [c EXCEPT !.step = 2, !.error = "500"]
               ELSE IF c.step = 0
               THEN [c EXCEPT !.step = 1, !.list = found,
                              !.count = Cardinality(found)]
               ELSE [c EXCEPT !.step = 2, !.rows = subs]
    IN  /\ c.op = "fetchAssignments"
        /\ c.step < 2
        /\ calls' = Answered(c, new)
        /\ last' = Stage(Last("fetchAssignments", u, "",
                              IF c.step = 0 THEN "assignments" ELSE "submissions", 0,
                              new.error,
                              IF fails THEN 0
                              ELSE IF c.step = 0 THEN new.count
                              ELSE Cardinality(subs), ""), "request")
        /\ UNCHANGED <<db, nextId, profiles, accounts, assignmentRows, categories,
                       objects, bodies, clock, loading, submission, isEditing,
                       uploadedFile, isOverdue, error, notesPage, auth,
                       assignmentsPage>>

\* The effect from its answers: every assignment joined with the account's
\* submission for it (null if none), or setError; finally setLoading(false).
\* In a page that is gone they set nothing.
fetchAssignments(c) ==
    LET u == c.actor
        \* submissionsData?.find(sub => sub.assignment_id === assignment.id)
        find(a) == LET hit == {r \in c.rows : r.parent = a}
                   IN  IF hit = {} THEN NoRow ELSE CHOOSE r \in hit : TRUE
    IN  /\ c.op = "fetchAssignments"
        /\ c.step = 2
        /\ calls' = Take(calls, c)
        /\ assignmentsPage' =
              [assignmentsPage EXCEPT
                 ![u] = IF c.orphan THEN @
                        ELSE IF c.error = ""
                        THEN [@ EXCEPT
                                !.assignments =
                                   {[id |-> a, due_date |-> DueDate(a),
                                     submission |-> find(a)] : a \in c.list},
                                !.loading = FALSE]
                        ELSE [@ EXCEPT !.error = TRUE, !.loading = FALSE]]
        /\ last' = Stage(Last("fetchAssignments", u, "", "assignments", 0, c.error,
                              c.count,
                              IF c.error = "" \/ c.orphan THEN "" ELSE "error"),
                         "answer")
        /\ UNCHANGED <<db, nextId, profiles, accounts, assignmentRows, categories,
                       objects, bodies, clock, loading, submission, isEditing,
                       uploadedFile, isOverdue, error, notesPage, auth>>

\* The status badge of a list entry, computed at every render; the status of a
\* null submission is undefined and equals neither 'submitted' nor 'draft'.
getAssignmentStatusOverdueFirst(assignment, now) ==
    IF IsPast(assignment.due_date, now) THEN "overdue"
    ELSE IF assignment.submission.status = "submitted" THEN "submitted"
    ELSE IF assignment.submission.status = "draft" THEN "draft"
    ELSE "pending"
getAssignmentStatus(assignment, now) ==
    IF assignment.submission.status = "submitted" THEN "submitted"
    ELSE IF IsPast(assignment.due_date, now) THEN "overdue"
    ELSE IF assignment.submission.status = "draft" THEN "draft"
    ELSE "pending"

\* The list of either account, while the account of the tabs writes its
\* submission and the clock goes on.
ListStep ==
    \/ \E u \in Users :
          \/ \E load \in BOOLEAN : AssignmentsMount(u, load)
          \/ fetchAssignmentsStart(u)
    \/ \E c \in calls :
          \/ \E fails \in BOOLEAN : fetchAssignmentsRequest(c, fails)
          \/ fetchAssignments(c)

OwnSubmissionStep ==
    \E s \in OneTab :
        \/ /\ CanDraft
           /\ RawInsert(SessUser(s), "submissions", SessUser(s), SessAssignment(s),
                        FormContent)
        \/ \E id \in RowIds(db, "submissions") :
              \/ RawUpdate(SessUser(s), "submissions", id, [status |-> "submitted"])
              \/ RawDelete(SessUser(s), "submissions", id)

NextList == ListStep \/ OwnSubmissionStep \/ Tick

SpecList == Init /\ [][NextList]_vars

\* ------------------------------------------------------------- claims, lifecycle
Subs(rows) == {r \in rows : r.table = "submissions"}
\* The submission of account u for assignment a.
SubsOf(rows, u, a) == {r \in Subs(rows) : r.user_id = u /\ r.parent = a}
\* The steps that ask the store to update or delete a submission row.
UpdateOps == {"onSubmit", "handleSubmitAssignment", "update"}
DeleteOps == {"handleDeleteSubmission", "delete"}
\* The step l is one in which the store answers a request.
Asked(l) == l.stage \in {"", "request"}
\* The call c leaves the calls in flight as it was: the store answers it, its
\* handler resumes from it, or its component unmounts.
Taken(c) == c \in calls /\ c \notin calls'

\* C1: a submission whose status is 'submitted' never has status 'draft' again,
\* whatever request the policies admit.
C1_SubmittedNeverDraftAgain ==
    [][\A r \in Subs(db) : \A n \in Subs(db') :
          (r.status = "submitted" /\ n.id = r.id) => n.status # "draft"]_vars

\* C2: when the store answers the update of handleSubmitAssignment at an
\* instant after the due instant, the answer is an error and the submission
\* stays 'draft'.
C2_SubmitAfterDueFails ==
    [][(/\ last'.op = "handleSubmitAssignment"
        /\ last'.stage = "request"
        /\ IsPast(DueDate(SessAssignment(last'.sess)), clock))
       => /\ last'.error # ""
          /\ \A r \in Subs(db) : \A n \in Subs(db') :
                (r.status = "draft" /\ n.id = r.id) => n.status = "draft"]_vars

\* C3: past the due instant, on a page that rendered past it, with no
\* submission of the account, the request of Save as Draft is rejected and
\* creates no row.
C3_NoDraftStartedAfterDue ==
    [][(/\ last'.op = "onSubmit"
        /\ last'.stage = "request"
        /\ IsPast(DueDate(SessAssignment(last'.sess)), clock)
        /\ isOverdue[last'.sess]
        /\ SubsOf(db, SessUser(last'.sess), SessAssignment(last'.sess)) = {})
       => /\ last'.error # ""
          /\ SubsOf(db', SessUser(last'.sess), SessAssignment(last'.sess)) = {}]_vars

\* C4: an update changes a submission only for its owner and only while the
\* row is 'draft'; a 'submitted' row keeps its content and attachment.
C4_UpdateOnlyOwnDraft ==
    [][\A r \in Subs(db) :
          /\ (/\ last'.op \in UpdateOps
              /\ Asked(last')
              /\ last'.id = r.id
              /\ last'.count > 0)
             => (last'.actor = r.user_id /\ r.status = "draft")
          /\ r.status = "submitted"
             => \A n \in Subs(db') :
                   n.id = r.id => (n.content = r.content /\ n.file_url = r.file_url)]_vars

\* C5: no step removes a 'submitted' submission; a submission is removed only
\* by a delete request of its owner while it is 'draft'.
C5_DeleteOnlyOwnDraft ==
    [][\A r \in Subs(db) :
          /\ r.status = "submitted" => \E n \in Subs(db') : n.id = r.id
          /\ (~ \E n \in Subs(db') : n.id = r.id)
             => /\ last'.op \in DeleteOps
                /\ Asked(last')
                /\ last'.actor = r.user_id
                /\ r.status = "draft"]_vars

\* C5 witness: the owner's tab, which still holds the draft, asked to delete
\* the row after it became 'submitted'; the store changed no row and the row
\* is still there.
C5_Witness ==
    /\ last.op = "handleDeleteSubmission"
    /\ last.stage = "request"
    /\ last.count = 0
    /\ \E r \in Subs(db) :
          r.id = last.id /\ r.user_id = last.actor /\ r.status = "submitted"

\* C6: at most one submission row per (assignment_id, user_id).
C6_OneSubmissionPerPair ==
    \A r1, r2 \in Subs(db) :
        (r1.parent = r2.parent /\ r1.user_id = r2.user_id) => r1 = r2

\* C6 witness: two Save as Draft calls of the account, neither holding a
\* submission, were in flight together; the insert of the second met the row
\* of the first.
C6_Witness ==
    /\ last.op = "onSubmit"
    /\ last.stage = "request"
    /\ last.error = "23505"
    /\ Cardinality(SubsOf(db, last.actor, SessAssignment(last.sess))) = 1

\* C7: when the store answers a Save as Draft call that held no submission
\* while the account's row already exists, the answer is no error and exactly
\* one row is there.
C7_SecondSaveBecomesUpdate ==
    [][\A c \in calls :
          (/\ last'.op = "onSubmit"
           /\ last'.stage = "request"
           /\ Taken(c)
           /\ c.op = "onSubmit"
           /\ c.step = 0
           /\ c.row = NoRow
           /\ SubsOf(db, c.actor, SessAssignment(c.sess)) # {})
          => /\ last'.error = ""
             /\ last'.count = 1
             /\ Cardinality(SubsOf(db', c.actor, SessAssignment(c.sess))) = 1]_vars

\* ------------------------------------------------------------- claims, access control
\* C8: a request that carries no session is granted nothing: it changes and
\* returns no row and no object.
C8_AnonDeniedEverything ==
    last.actor = Anon => last.count = 0

\* C9: an update or delete request for a row of another account changes
\* nothing, whatever the row's status.
C9_NonOwnerCannotChange ==
    [][\A r \in db :
          (/\ last'.op \in {"update", "delete"}
           /\ last'.table = r.table
           /\ last'.id = r.id
           /\ last'.actor # r.user_id)
          => (last'.count = 0 /\ db' = db)]_vars

\* C9 witness: an account asked to delete the reviewed feedback of another
\* account and the row is still there.
C9_Witness ==
    /\ last.op = "delete"
    /\ last.actor \in Users
    /\ last.count = 0
    /\ \E r \in db : /\ r.table = "feedback"
                     /\ r.id = last.id
                     /\ r.status = "reviewed"
                     /\ r.user_id # last.actor

\* C10: the store answers a delete that the policies deny for the row it
\* names with an error: its caller observes a failure.
C10_DeniedDeleteReportsFailure ==
    [][(/\ last'.op = "delete"
        /\ \E r \in db : /\ r.table = last'.table
                         /\ r.id = last'.id
                         /\ ~ Policy("delete", last'.actor, r))
       => last'.error # ""]_vars

\* ------------------------------------------------------------- claims, reads
\* The tables whose rows only their owner may read.
PrivateTables == {"notes", "submissions", "feedback"}

\* C11: a read returns a note, submission, feedback or profile row only to the
\* account that owns it (for a profile: whose id it is).
C11_ReadOnlyOwnRows ==
    [][/\ (last'.op = "select" /\ last'.count > 0 /\ last'.table \in PrivateTables)
          => \A r \in db : (r.table = last'.table /\ r.id = last'.id)
                              => r.user_id = last'.actor
       /\ (last'.op = "select" /\ last'.count > 0 /\ last'.table = "profiles")
          => last'.path = <<last'.actor>>]_vars

\* C11 witness: an account asked for the submission of another account and got
\* no row.
C11_Witness ==
    /\ last.op = "select"
    /\ last.actor \in Users
    /\ last.count = 0
    /\ \E r \in db : /\ r.table = "submissions"
                     /\ r.id = last.id
                     /\ r.user_id # last.actor

\* ------------------------------------------------------------- claims, attachments
\* C12: any signed-in account reads any object of the bucket; an object is
\* created, replaced or removed only by the account whose id is the first
\* segment of its path, and that account is allowed to.
C12_ObjectsReadByAllWrittenByOwner ==
    [][(last'.table = "storage.objects" /\ last'.actor \in Users)
       => /\ last'.op = "download"
             => (last'.count = 1 <=> last'.path \in objects)
          /\ (last'.op \in {"upload", "update", "remove"} /\ last'.count > 0)
             => FolderName(last'.path) = last'.actor
          /\ (last'.op = "upload" /\ FolderName(last'.path) = last'.actor
                                  /\ last'.path \notin objects)
             => (last'.count = 1 /\ last'.path \in objects')
          /\ (last'.op \in {"update", "remove"} /\ FolderName(last'.path) = last'.actor
                                                /\ last'.path \in objects)
             => last'.count = 1]_vars

\* C12 witness: an account downloaded an object in the folder of another
\* account.
C12_Witness ==
    /\ last.op = "download"
    /\ last.actor \in Users
    /\ last.count = 1
    /\ FolderName(last.path) # last.actor

\* C13: every attachment reference stored on a row designates a path whose
\* first segment is the id of the account that owns the row.
C13_AttachmentInOwnersFolder ==
    \A r \in db : r.file_url # NoFile => FolderName(r.file_url) = r.user_id

\* C14: handleFileUpload rejects a file exactly when its size is greater than
\* 50 MiB; a rejected file sends no request, writes no object and leaves the
\* form's attachment as it was.
C14_RejectedIffOverFiftyMiB ==
    [][(last'.op = "handleFileUpload" /\ last'.stage = "start")
       => /\ last'.error = "size" <=> last'.size > 50 * 1024 * 1024
          /\ last'.error = "size"
             => /\ objects' = objects
                /\ calls' = calls
                /\ uploadedFile' = uploadedFile
                /\ last'.outcome = "error"]_vars

\* C14 witness: a file of exactly 50 MiB was uploaded and stored, and is the
\* form's attachment.
C14_Witness ==
    /\ last.op = "handleFileUpload"
    /\ last.stage = "answer"
    /\ last.size = 50 * 1024 * 1024
    /\ last.error = ""
    /\ last.path \in objects
    /\ uploadedFile[last.sess].url = last.path

\* C15: replacing an attachment is all-or-nothing: when the form is cancelled
\* or the upload of the replacement fails, the object the submission row
\* references is still in the store.
C15_RebindAllOrNothing ==
    [][(\/ last'.op = "cancel"
        \/ /\ last'.op = "handleFileUpload"
           /\ last'.stage = "answer"
           /\ last'.error # "")
       => \A r \in Subs(db') :
             (r.id = submission[last'.sess].id /\ r.file_url # NoFile)
             => r.file_url \in objects']_vars

\* C16: every attachment reference on a stored row points at an object that
\* exists in the object store.
C16_ReferencedObjectExists ==
    \A r \in db : r.file_url # NoFile => r.file_url \in objects

\* C17: after a draft submission with an attachment is deleted, the object of
\* the attachment is no longer in the store.
C17_DeleteReleasesAttachment ==
    [][(/\ last'.op = "handleDeleteSubmission"
        /\ last'.stage = "request"
        /\ last'.count = 1)
       => \A r \in db \ db' : r.file_url # NoFile => r.file_url \notin objects']_vars

\* C18: when the object store fails an upload, the form's attachment, the rows
\* and the objects are unchanged; the form's attachment only ever becomes that
\* of an upload the store answered without error.
C18_FailedUploadChangesNothing ==
    [][(last'.op = "handleFileUpload" /\ last'.stage = "answer")
       => /\ last'.error \notin {"", "size"}
             => /\ uploadedFile' = uploadedFile
                /\ db' = db
                /\ objects' = objects
                /\ last'.outcome = "error"
          /\ uploadedFile'[last'.sess] # uploadedFile[last'.sess]
             => /\ last'.error = ""
                /\ last'.count = 1
                /\ uploadedFile'[last'.sess].url = last'.path]_vars

\* C18 witness: the store failed an upload; the object is not stored and the
\* form holds no attachment.
C18_Witness ==
    /\ last.op = "handleFileUpload"
    /\ last.stage = "answer"
    /\ last.error = "500"
    /\ last.path \notin objects
    /\ uploadedFile[last.sess] = NoDescriptor

\* C19: handleFileRemove on a form that holds no attachment calls no store,
\* reports nothing and changes nothing.
C19_RemoveWithoutAttachmentIsNoOp ==
    [][(/\ last'.op = "handleFileRemove"
        /\ last'.stage = "start"
        /\ uploadedFile[last'.sess] = NoDescriptor)
       => /\ last'.table = ""
          /\ last'.error = ""
          /\ last'.outcome = ""
          /\ calls' = calls
          /\ objects' = objects
          /\ uploadedFile' = uploadedFile
          /\ db' = db]_vars

\* C19 witness: the handler ran on a form without attachment while the
\* account has an object in the store.
C19_Witness ==
    /\ last.op = "handleFileRemove"
    /\ last.stage = "start"
    /\ last.table = ""
    /\ last.outcome = ""
    /\ uploadedFile[last.sess] = NoDescriptor
    /\ objects # {}

\* ------------------------------------------------------------- claims, accounts
\* C20: after a successful sign-up the profile row of the new account exists.
C20_SignUpCreatesProfile ==
    [][(last'.op = "signUp" /\ last'.outcome = "success")
       => last'.actor \in profiles']_vars

\* ------------------------------------------------------------- claims, ownership
\* C23: the user_id of a row of an owned table never changes: no update the
\* store admits, by the client or by the owner directly, writes another owner.
C23_OwnerImmutable ==
    [][\A r \in db : \A n \in db' :
          (n.table = r.table /\ n.id = r.id) => n.user_id = r.user_id]_vars

\* C23 witness: the owner of a note asked the store to write another user_id
\* on it; the store answered 42501 and the note is still the owner's.
C23_Witness ==
    /\ last.op = "update"
    /\ last.error = "42501"
    /\ \E r \in db : /\ r.table = "notes"
                     /\ r.id = last.id
                     /\ r.user_id = last.actor

\* C24: an update or delete request changes a feedback row only for its owner
\* and only while the row is 'pending'; a row that is 'reviewed' or 'resolved'
\* stays as it is under every request of an account; no request of an account
\* changes the status of a feedback row.
C24_FeedbackOnlyOwnPending ==
    [][\A r \in db :
          r.table = "feedback"
          => /\ (/\ last'.op \in {"update", "delete"}
                 /\ last'.table = "feedback"
                 /\ last'.id = r.id
                 /\ last'.count > 0)
                => (last'.actor = r.user_id /\ r.status = "pending")
             /\ (r.status # "pending" /\ last'.op # "review") => r \in db'
             /\ last'.op # "review"
                => \A n \in db' :
                      (n.table = "feedback" /\ n.id = r.id) => n.status = r.status]_vars

\* C24 witness: the owner asked to delete their feedback after staff reviewed
\* it, and the row is still there.
C24_Witness ==
    /\ last.op = "delete"
    /\ last.count = 0
    /\ \E r \in db : /\ r.table = "feedback"
                     /\ r.id = last.id
                     /\ r.status = "reviewed"
                     /\ r.user_id = last.actor

\* ------------------------------------------------------------- claims, submit
\* The steps of the AssignmentDetail page.
PageOps == {"fetch", "edit", "cancel", "onSubmit", "handleSubmitAssignment",
            "handleDeleteSubmission"}

\* C25: among the steps of the page only handleSubmitAssignment makes a
\* submission 'submitted'; onSubmit leaves status, user_id and assignment_id of
\* an existing row as they were and inserts a new row as 'draft'.
C25_OnlySubmitSubmits ==
    [][last'.op \in PageOps
       => /\ \A n \in Subs(db') :
                (/\ n.status = "submitted"
                 /\ ~ \E r \in Subs(db) : r.id = n.id /\ r.status = "submitted")
                => last'.op = "handleSubmitAssignment"
          /\ last'.op = "onSubmit"
             => \A n \in Subs(db') :
                   /\ \A r \in Subs(db) :
                         r.id = n.id => /\ n.status = r.status
                                        /\ n.user_id = r.user_id
                                        /\ n.parent = r.parent
                   /\ (~ \E r \in Subs(db) : r.id = n.id) => n.status = "draft"]_vars

\* C25 witness: the tab, which still holds the draft, saved it after the row
\* had become 'submitted': the store changed the row and it is still
\* 'submitted'.
C25_Witness ==
    /\ last.op = "onSubmit"
    /\ last.stage = "request"
    /\ last.count = 1
    /\ submission[last.sess].status = "draft"
    /\ \E r \in Subs(db) : r.id = last.id /\ r.status = "submitted"

\* C26: after one tab of the account has submitted the draft, a delete from
\* the other tab, which still holds the draft, never ends with that tab
\* reporting success while the row is still in the store.
C26_ReportedDeleteRemovedRow ==
    [][(/\ last'.op = "handleDeleteSubmission"
        /\ last'.stage = "answer"
        /\ last'.outcome = "success"
        /\ \E s \in Sessions \ {last'.sess} :
              /\ submission[s].id = last'.id
              /\ submission[s].status = "submitted")
       => ~ \E r \in Subs(db') : r.id = last'.id]_vars

\* C28: once the form is saved or cancelled with no upload or removal in
\* flight, every object in the bucket is the attachment of a stored row of the
\* account whose folder holds it.
C28_NoUnreferencedObject ==
    [][(/\ \/ last'.op = "cancel"
           \/ /\ last'.op = "onSubmit"
              /\ last'.stage = "answer"
              /\ last'.outcome = "success"
        /\ \A c \in calls' : c.op \notin {"handleFileUpload", "handleFileRemove"})
       => \A p \in objects' :
             \E r \in db' : r.file_url = p /\ r.user_id = FolderName(p)]_vars

\* C29: handleFileUpload never overwrites: when the path it built already
\* names an object, the store answers the upload with an error and the bucket,
\* with the content of that object, is as it was.
C29_UploadNeverOverwrites ==
    [][(/\ last'.op = "handleFileUpload"
        /\ last'.stage = "request"
        /\ last'.path \in objects)
       => /\ last'.error # ""
          /\ last'.count = 0
          /\ objects' = objects
          /\ bodies' = bodies]_vars

\* C29 witness: an upload met an object at its path that holds other content;
\* the store answered 409 and the object still holds that content.
C29_Witness ==
    /\ last.op = "handleFileUpload"
    /\ last.stage = "request"
    /\ last.error = "409"
    /\ \E b \in bodies : b[1] = last.path /\ b[2] # last.size

\* ------------------------------------------------------------- claims, references
\* C21: in every state each comment names an announcement that exists, each
\* submission an assignment that exists, each owned row a profile that exists
\* and each profile an account that exists: what a deleted announcement,
\* assignment or account was referenced by is gone with it.
C21_ReferentialIntegrity ==
    /\ profiles \subseteq accounts
    /\ \A r \in db :
          /\ r.user_id \in profiles
          /\ r.table = "submissions" => r.parent \in assignmentRows
          /\ r.table = "comments"
             => \E a \in db : a.table = "announcements" /\ a.id = r.parent

\* C21 witness: an account was deleted whose announcement had a comment; both
\* rows are gone while the other profile is still there.
C21_Witness ==
    /\ last.op = "deleteAccount"
    /\ last.count = 2
    /\ db = {}
    /\ profiles # {}

\* C22: a note or announcement never names a category that does not exist, and
\* the deletion of a category removes no row and changes nothing of a row but
\* its category_id.
C22_CategoryDeleteClearsReference ==
    [][/\ \A r \in db' :
             r.table \in {"notes", "announcements"}
             => r.parent \in categories' \cup {NoParent}
       /\ last'.op = "deleteCategory"
          => /\ \A r \in db : [r EXCEPT !.parent = NoParent] \in db' \/ r \in db'
             /\ Cardinality(db') = Cardinality(db)]_vars

\* C22 witness: the category a note named was deleted; the note is there with
\* no category.
C22_Witness ==
    /\ last.op = "deleteCategory"
    /\ last.count = 1
    /\ \E r \in db : r.table = "notes" /\ r.parent = NoParent

\* ------------------------------------------------------------- claims, list
\* C27: for every entry of the list and at every instant, getAssignmentStatus
\* is 'submitted' if the entry's submission is submitted, else 'overdue' if
\* the due date is before now, else 'draft' if the submission is a draft, else
\* 'pending'.
C27_StatusPrecedence ==
    \A u \in Users : \A x \in assignmentsPage[u].assignments :
        LET st == getAssignmentStatus(x, clock)
            sub == x.submission.status
            past == x.due_date < clock
        IN  /\ st \in {"submitted", "overdue", "draft", "pending"}
            /\ sub = "submitted" => st = "submitted"
            /\ (sub # "submitted" /\ past) => st = "overdue"
            /\ (sub = "draft" /\ ~ past) => st = "draft"
            /\ (sub \notin {"submitted", "draft"} /\ ~ past) => st = "pending"

\* C27 witness: the list holds an entry whose submission is submitted and
\* whose due date has passed.
C27_Witness ==
    \E x \in assignmentsPage["u1"].assignments :
        /\ x.submission.status = "submitted"
        /\ x.due_date < clock
        /\ getAssignmentStatus(x, clock) = "submitted"

\* ------------------------------------------------------------- claims, session
\* C30: the protected pages are on the screen only while the auth context has
\* loading = false and a user; on a protected route loading = true shows the
\* spinner and loading = false without user renders the redirect to /login.
C30_OutletOnlyWhenSignedIn ==
    /\ Screen = "Outlet" => (~ auth.loading /\ auth.user # NoUser)
    /\ (auth.location \notin PublicRoutes /\ auth.loading) => Screen = "spinner"
    /\ (auth.location \notin PublicRoutes /\ ~ auth.loading /\ auth.user = NoUser)
       => Screen = "Navigate"

\* C30 witness: sign-out awaits its answer: the context still holds the user,
\* loading is true and the protected route shows the spinner.
C30_Witness ==
    /\ \E c \in calls : c.op = "signOut"
    /\ auth.loading
    /\ auth.user # NoUser
    /\ Screen = "spinner"
====
